---- MODULE Spec2Model ----
(***************************************************************************)
(* Power-meter monitoring: the per-station WebSocket supervisor            *)
(* (StationMonitor in monitor.js, ChiangMaiClient in chaigmai.js), the     *)
(* reading pipeline (updateData / saveToDatabase, ApiDataFetcher) and the  *)
(* fleet coordinator (MonitorController, main).                            *)
(*                                                                         *)
(* Three specifications share this module:                                 *)
(*   Spec      one station's supervisor: sockets, reconnect timers and the *)
(*             handshake coroutines that run on them;                      *)
(*   SpecPipe  one station's reading pipeline against a clock and a store; *)
(*   SpecFleet the coordinator with its stations and the process signals.  *)
(* Time is counted in ticks of 5000 ms (config.reconnectInterval).        *)
(***************************************************************************)
EXTENDS Integers, Sequences, FiniteSets, TLC

\* ------------------------------------------------------------------ bounds
\* sockets of one station that are live (connecting, open, closing) at once
MaxSock == 1
\* reconnect timers of one station pending at once
MaxTimers == 1
\* connect() calls the coordinator makes for one station (rotation turns)
MaxTurns == 2

\* ticks the pipeline's clock runs for
MaxClock == 3
\* createPowerReading calls of one run
MaxWrites == 2
\* reload timers of saveToDatabase pending at once
MaxReloads == 1
\* keys of one frame
MaxKeys == 2

\* executeOperation calls of one run
MaxCalls == 3

\* fetchAndProcess calls of one run
MaxFetches == 8
\* startChiangMaiStation calls
MaxStarts == 4
MaxApiStarts == 2
\* connect() and ensureConnection() calls of one run
MaxConnCalls == 3
\* readings of one batch, and rows of power_readings
MaxBatch == 2
MaxRows == 3

\* ------------------------------------------------------- program constants
\* dbSaveInterval = 10000 ms and fetchIntervalMs = 10000 ms, in ticks
DbSaveInterval == 2
FetchInterval == 2
\* null, for a time
NoTime == -1
MonitorMaxReconnectAttempts == 5
ChiangMaiMaxReconnectAttempts == 10
LastStep == 7
\* DatabaseService.maxRetries
DbMaxRetries == 3
\* ApiDataFetcher.maxErrors
ApiMaxErrors == 5
\* the id that ends the list of registerActiveObjects
Sentinel == -1
\* the advisory ranges of validatePowerData: 0..100000 W and 0..1000000000 kWh
ActiveMax == 100000
MuxMax == 1000000000

Kinds == {"monitor", "chiangmai"}
PipeKinds == {"monitor", "chiangmai", "api"}
\* the station's monitored objects, and the values a frame gives them
monitoredObjects == {"o1", "o2"}
Values == {"v1", "v2"}
\* every frame: per monitored object a value, or "absent" when the frame has no
\* such key
Frames == [monitoredObjects -> Values \cup {"absent"}]
\* socket slots: one more than a station holds at a time when nothing overlaps
Socks == 1..(MaxSock + 1)
Steps == 0..LastStep
\* what a response's payload looks like to the validators: a result object
\* carrying a USID, the boolean true as result, or cached === true with no result
Shapes == {"usid", "true", "cached"}

VARIABLES
  kind,               \* which client class this station runs
  socks,              \* socket slot -> "none" | "connecting" | "open" | "closing"
  ws,                 \* this.ws: a slot, or 0 for null
  isConnected,        \* this.isConnected
  USID,               \* this.USID: 0 for null, else the token
  reconnectAttempts,  \* this.reconnectAttempts
  timers,             \* pending setTimeout(connect) callbacks of handleReconnect
  co,                 \* slot -> the coroutine started by the connect() of that slot
  mon,                \* sockets carrying the notification listener
  ctlSock,            \* slot of the coordinator's own running coroutine, 0 if none
  turns,              \* connect() calls made by the coordinator
  alive,              \* the process has not exited
  fails,              \* history: close events since the last open
  connFails,          \* history: closes of never-opened sockets since the last open
  lastSched,          \* history: did the latest handleReconnect schedule a connect
  stopped,            \* history: disconnect() was called after the last coordinator connect
  monBad,             \* history: startMonitoring ran without all eight good responses
  early7              \* history: a good id-7 response arrived during a sign-in wait

stationVars == <<kind, socks, ws, isConnected, USID, reconnectAttempts, timers, co,
                 mon, ctlSock, turns, alive, fails, connFails, lastSched, stopped,
                 monBad, early7>>

\* the station's state without the process itself
stationButAlive == <<kind, socks, ws, isConnected, USID, reconnectAttempts, timers, co,
                     mon, ctlSock, turns, fails, connFails, lastSched, stopped, monBad,
                     early7>>

\* ------------------------------------------- the reading pipeline's state
VARIABLES
  pkind,              \* "monitor" | "chiangmai" (socket stations) | "api" (ApiDataFetcher)
  dbOn,               \* this.databaseService && this.stationRecord
  now,                \* the clock, in ticks
  dataBuffer,         \* this.dataBuffer / this.meterData / this.lastData
  lastUpdate,         \* this.lastUpdate / this.lastFetch
  lastDbSave,         \* this.lastDbSave
  inflight,           \* createPowerReading calls the store has not answered yet
  stored,             \* rows the store has inserted
  nIssued,            \* history: createPowerReading calls made
  lastW,              \* history: the latest createPowerReading call
  prevIssueT,         \* history: when the call before the latest was made
  lastFrame           \* history: what the latest frame did

pipeVars == <<pkind, dbOn, now, dataBuffer, lastUpdate, lastDbSave, inflight, stored,
              nIssued, lastW, prevIssueT, lastFrame>>

\* --------------------------------------------------- the coordinator's state
VARIABLES
  mode,               \* process.argv[2]: "rotation" | "simultaneous"
  behav,              \* station -> how the device behaves (the environment)
  pc,                 \* where main is, or how the process ended
  isRunning,          \* controller.isRunning
  currentIndex,       \* controller.currentIndex (1-based here)
  turn,               \* where startRotation's turn is: "none" | "connect" | "init" | "sleep"
  sess,               \* station -> state of its monitor's session
  attempts,           \* station -> its monitor's reconnectAttempts
  task,               \* station -> its async task of startSimultaneous
  seen,               \* station -> its monitor has received a reading
  allData,            \* controller.allData: the stations with a snapshot pushed
  handler,            \* the SIGINT listener of main is installed
  summary,            \* what getSummary printed
  chiangMaiProcess,   \* controller.chiangMaiProcess is set
  cls,                \* station -> the class of its monitor
  hadTurn             \* history: stations for which a loop iteration of startRotation began

fleetVars == <<mode, behav, pc, isRunning, currentIndex, turn, sess, attempts, task,
               seen, allData, handler, summary, chiangMaiProcess, cls, hadTurn>>

\* ------------------------------------- the monitored-object list's state
VARIABLES
  databaseService,    \* this.databaseService is set
  stationRecord,      \* this.stationRecord is set
  objs,               \* this.monitoredObjects
  storeRows,          \* the store's stationMonitoredObject rows of this station
  phase,              \* "idle" | "session": initializeSession has begun, no close or stop yet
  reloadTimers,       \* pending setTimeout(initializeStationInDatabase) of saveToDatabase
  lastLoad,           \* history: the latest initializeStationInDatabase call
  sessionObjs,        \* history: this.monitoredObjects as the session's start left it
  registered          \* history: the session's registerActiveObjects request

loadVars == <<databaseService, stationRecord, objs, storeRows, phase, reloadTimers,
              lastLoad, sessionObjs, registered>>

\* ------------------------------------------------- normalization's state
VARIABLES
  path,               \* "socket" (StationMonitor) | "api" (ApiDataFetcher)
  powerData,          \* the frame: this.dataBuffer, or the API response
  lastData,           \* ApiDataFetcher.lastData, the output of transformApiData
  validation,         \* what validatePowerData returned for the frame
  written,            \* createPowerReading was called for the frame
  dbData              \* the column values createPowerReading passes to the store

normVars == <<path, powerData, lastData, validation, written, dbData>>

\* ------------------------------------------------ the DatabaseService's state
VARIABLES
  stRows,             \* the rows of the stations table
  born,               \* history: id and name of every station row as it was created
  nextId,             \* the next id the store hands out
  calls,              \* caller -> its executeOperation call
  nCalls,             \* calls begun
  readings            \* rows of the power_readings table

storeVars == <<stRows, born, nextId, calls, nCalls, readings>>

\* ------------------------------------------------- the HTTP poller's state
VARIABLES
  apiRunning,         \* ApiDataFetcher.isRunning
  errorCount,         \* ApiDataFetcher.errorCount
  fetchTimer,         \* "none" | "first" (start awaits the initial fetch) | "set" | "cleared"
  nFetch,             \* fetchAndProcess calls made
  consec,             \* history: fetches rejected in a row since the last that resolved
  selfStopped         \* history: fetchAndProcess called stop()

pollVars == <<apiRunning, errorCount, fetchTimer, nFetch, consec, selfStopped>>

\* ------------------------------------------- the Chiang Mai child's state
VARIABLES
  hasDatabase,        \* controller.databaseService is set
  child,              \* the chaigmai.js process: "none" | "up" | "term" (SIGTERM sent) | "gone"
  starting,           \* startChiangMaiStation calls awaiting findOrCreateStation
  restartTimers,      \* pending setTimeout(startChiangMaiStation) of the close listener
  nStarts,            \* startChiangMaiStation calls made
  stopCalled,         \* history: stop() has been called
  exited,             \* the controller process has exited
  startedAfterStop    \* history: a chaigmai.js process was spawned after stop()

childVars == <<hasDatabase, child, starting, restartTimers, nStarts, stopCalled, exited,
               startedAfterStop>>

\* --------------------------------------------- overlapping sockets' state
VARIABLES
  cap,                \* sockets of one station that can be alive at once
  usidFrom,           \* history: slot of the socket this.USID was received on;
                      \* 0 with no token, -1 once that socket is gone
  regOk,              \* history: sockets whose registerActiveObjects request was answered true
  processedOn         \* history: sockets a frame of which went into updateData

overlapVars == <<cap, usidFrom, regOk, processedOn>>

\* ------------------------------------------------ overlapping start() calls
VARIABLES
  startAt,            \* each start() call: "idle" | "init" (awaits initializeStationInDatabase)
                      \* | "fetch" (awaits the initial fetchAndProcess) | "done"
  intervals,          \* the setInterval timers that are set and not cleared, by the call that set them
  fetchInterval       \* ApiDataFetcher.fetchInterval: the timer it holds, 0 for null

callVars == <<startAt, intervals, fetchInterval>>

\* --------------------------------------------- the database connection's state
VARIABLES
  dbConnected,        \* DatabaseService.isConnected
  connectionRetries,  \* DatabaseService.connectionRetries
  conn                \* the connect() or ensureConnection() call that runs or ran last

connVars == <<dbConnected, connectionRetries, conn>>

\* --------------------------------------- the monitored-object table's state
VARIABLES
  objRows,            \* the rows of station_monitored_objects
  upd,                \* the updateStationMonitoredObjects call that runs or ran last
  got                 \* what the last getStationMonitoredObjects call returned

mapVars == <<objRows, upd, got>>

\* --------------------------------------------- the power_readings table's state
VARIABLES
  pwRows,             \* the number of rows of power_readings
  req                 \* the last createPowerReading or createBatchPowerReadings call

reqVars == <<pwRows, req>>

vars == <<stationVars, pipeVars, fleetVars, loadVars, normVars, storeVars, pollVars, childVars, overlapVars, callVars, connVars, mapVars, reqVars>>

\* what each specification leaves alone
offBoth == <<fleetVars, loadVars, normVars, storeVars, pollVars, childVars, overlapVars, callVars, connVars, mapVars, reqVars>>
offStation == <<pipeVars, fleetVars, loadVars, normVars, storeVars, pollVars, childVars, overlapVars, callVars, connVars, mapVars, reqVars>>
offPipe == <<stationVars, fleetVars, loadVars, normVars, storeVars, pollVars, childVars, overlapVars, callVars, connVars, mapVars, reqVars>>
offFleet == <<stationVars, pipeVars, loadVars, normVars, storeVars, pollVars, childVars, overlapVars, callVars, connVars, mapVars, reqVars>>
offLoad == <<stationVars, pipeVars, fleetVars, normVars, storeVars, pollVars, childVars, overlapVars, callVars, connVars, mapVars, reqVars>>
offNorm == <<stationVars, pipeVars, fleetVars, loadVars, storeVars, pollVars, childVars, overlapVars, callVars, connVars, mapVars, reqVars>>
offStore == <<stationVars, pipeVars, fleetVars, loadVars, normVars, pollVars, childVars, overlapVars, callVars, connVars, mapVars, reqVars>>
offPoll == <<stationVars, pipeVars, fleetVars, loadVars, normVars, storeVars, childVars, overlapVars, callVars, connVars, mapVars, reqVars>>
offChild == <<stationVars, pipeVars, fleetVars, loadVars, normVars, storeVars, pollVars, overlapVars, callVars, connVars, mapVars, reqVars>>
offFleetChild == <<stationVars, pipeVars, loadVars, normVars, storeVars, pollVars, overlapVars, callVars, connVars, mapVars, reqVars>>
offOverlap == <<stationVars, pipeVars, fleetVars, loadVars, normVars, storeVars, pollVars, childVars, callVars, connVars, mapVars, reqVars>>
offStationOverlap == <<pipeVars, fleetVars, loadVars, normVars, storeVars, pollVars, childVars, callVars, connVars, mapVars, reqVars>>
offCall == <<stationVars, pipeVars, fleetVars, loadVars, normVars, storeVars, pollVars, childVars, overlapVars, connVars, mapVars, reqVars>>
offPollCall == <<stationVars, pipeVars, fleetVars, loadVars, normVars, storeVars, childVars, overlapVars, connVars, mapVars, reqVars>>
offConn == <<stationVars, pipeVars, fleetVars, loadVars, normVars, storeVars, pollVars, childVars, overlapVars, callVars, mapVars, reqVars>>
offMap == <<stationVars, pipeVars, fleetVars, loadVars, normVars, storeVars, pollVars, childVars, overlapVars, callVars, connVars, reqVars>>
offReq == <<stationVars, pipeVars, fleetVars, loadVars, normVars, storeVars, pollVars, childVars, overlapVars, callVars, connVars, mapVars>>

\* ---------------------------------------------------------------- helpers
config_maxReconnectAttempts(k) ==
  IF k = "monitor" THEN MonitorMaxReconnectAttempts ELSE ChiangMaiMaxReconnectAttempts

NoCo == [st |-> "none", step |-> 0, on |-> 0, seen |-> -1]

\* a slot can carry a new socket when its old socket is gone and nothing of
\* the old socket's coroutine or listeners is left
FreeSlot(k) ==
  /\ socks[k] = "none"
  /\ co[k].st = "none"
  /\ \A j \in Socks : co[j].st = "wait" => co[j].on # k

FreeSlots ==
  IF Cardinality({k \in Socks : ~FreeSlot(k)}) < cap
    THEN {k \in Socks : FreeSlot(k)}
    ELSE {}
NewSlot == CHOOSE k \in FreeSlots : \A j \in FreeSlots : k <= j

MinCap(a, b) == IF a < b THEN a ELSE b

\* ------------------------------------------------ supervisor: pure parts
\* handleReconnect's test (monitor.js: reconnectAttempts < max;
\* chaigmai.js: return when reconnectAttempts >= max)
ReconnectAllowed_inclusive(n, k) == n <= config_maxReconnectAttempts(k)
ReconnectAllowed(n, k) == n < config_maxReconnectAttempts(k)

\* the validators initializeSession / setUpSession hand to their waits
StepValidator(k, step, msg) ==
  /\ msg.id = step
  /\ CASE step = 0 -> msg.shape = "usid"
       [] step \in {1, 2, 7} -> msg.shape = "true"
       [] OTHER -> IF k = "monitor" THEN TRUE ELSE msg.shape = "cached"

\* the message handler of waitForMessage / handleWSMessage*: it resolves the
\* wait exactly when the validator accepts the message
waitForMessage_anyMessage(k, step, msg) == TRUE
waitForMessage(k, step, msg) == StepValidator(k, step, msg)

\* the highest request id a handshake run has put on the wire
Sent(c) == CASE c.st = "wait" -> c.step
             [] c.st = "send" -> c.step - 1
             [] OTHER -> -1

\* ------------------------------------------------ supervisor: state changes
\* connect(): a new socket in slot k becomes this.ws; the caller's coroutine
\* waits for the promise
connect(k) ==
  /\ socks' = [socks EXCEPT ![k] = "connecting"]
  /\ ws' = k
  /\ co' = [co EXCEPT ![k] = [st |-> "conn", step |-> 0, on |-> 0, seen |-> -1]]

\* the "close" listener of every socket: isConnected = false; handleReconnect()
OnClose ==
  /\ isConnected' = FALSE
  /\ fails' = MinCap(fails + 1, ChiangMaiMaxReconnectAttempts + 2)
  /\ IF ReconnectAllowed(reconnectAttempts, kind)
       THEN /\ reconnectAttempts' = reconnectAttempts + 1
            /\ timers' = timers + 1
            /\ lastSched' = TRUE
       ELSE /\ UNCHANGED <<reconnectAttempts, timers>>
            /\ lastSched' = FALSE

\* a coroutine of slot j ends; when it is the coordinator's own and it ended
\* with an error, chaigmai.js main() exits the process
EndsProcess(j, failed) == kind = "chiangmai" /\ failed /\ j = ctlSock

StationInit ==
  /\ kind \in Kinds
  /\ socks = [k \in Socks |-> "none"]
  /\ ws = 0
  /\ isConnected = FALSE
  /\ USID = 0
  /\ reconnectAttempts = 0
  /\ timers = 0
  /\ co = [k \in Socks |-> NoCo]
  /\ mon = {}
  /\ ctlSock = 0
  /\ turns = 0
  /\ alive = TRUE
  /\ fails = 0
  /\ connFails = 0
  /\ lastSched = FALSE
  /\ stopped = FALSE
  /\ monBad = FALSE
  /\ early7 = FALSE

\* the coordinator (startRotation / startSimultaneous / chaigmai main) calls
\* monitor.connect()
CtlConnect ==
  /\ alive /\ ctlSock = 0 /\ turns < MaxTurns /\ FreeSlots # {}
  /\ kind = "chiangmai" => turns = 0
  /\ connect(NewSlot)
  /\ ctlSock' = NewSlot
  /\ turns' = turns + 1
  /\ stopped' = FALSE
  /\ UNCHANGED <<offStation, kind, isConnected, USID, reconnectAttempts, timers, mon, alive,
                 fails, connFails, lastSched, monBad, early7>>

\* the setTimeout callback of handleReconnect fires: connect().then(initializeSession)
TimerFire ==
  /\ alive /\ timers > 0 /\ FreeSlots # {}
  /\ timers' = timers - 1
  /\ connect(NewSlot)
  /\ UNCHANGED <<offStation, kind, isConnected, USID, reconnectAttempts, mon, ctlSock, turns,
                 alive, fails, connFails, lastSched, stopped, monBad, early7>>

\* "open": isConnected = true, reconnectAttempts = 0, the connect promise
\* resolves and the caller goes on to initializeSession, whose first request
\* waits in sendData's delay
SockOpen(k) ==
  /\ alive /\ socks[k] = "connecting"
  /\ socks' = [socks EXCEPT ![k] = "open"]
  /\ isConnected' = TRUE
  /\ reconnectAttempts' = 0
  /\ fails' = 0
  /\ connFails' = 0
  /\ co' = [co EXCEPT ![k] = [st |-> "send", step |-> 0, on |-> 0, seen |-> -1]]
  /\ UNCHANGED <<offStation, kind, ws, USID, timers, mon, ctlSock, turns, alive, lastSched,
                 stopped, monBad, early7>>

\* a socket goes away: a connecting one with "error" then "close" (the connect
\* promise rejects and its caller logs), an open one dropped by the peer, a
\* closing one after close()
onSocketClose(k) ==
  /\ alive /\ socks[k] # "none"
  /\ ReconnectAllowed(reconnectAttempts, kind) => timers < MaxTimers
  /\ socks' = [socks EXCEPT ![k] = "none"]
  /\ mon' = mon \ {k}
  /\ OnClose
  /\ connFails' = IF co[k].st = "conn"
                    THEN MinCap(connFails + 1, ChiangMaiMaxReconnectAttempts + 2)
                    ELSE connFails
  /\ IF co[k].st = "conn"
       THEN /\ co' = [co EXCEPT ![k] = NoCo]
            /\ ctlSock' = IF ctlSock = k THEN 0 ELSE ctlSock
            /\ alive' = ~EndsProcess(k, TRUE)
       ELSE UNCHANGED <<co, ctlSock, alive>>
  /\ UNCHANGED <<kind, ws, USID, turns, stopped, monBad, early7>>

SockClose(k) == onSocketClose(k) /\ UNCHANGED offStation

\* sendData's delayed callback: send on this.ws when it is open, else reject
SendData(j) ==
  /\ alive /\ co[j].st = "send"
  /\ IF ws # 0 /\ socks[ws] = "open"
       THEN /\ co' = [co EXCEPT ![j] = [@ EXCEPT !.st = "wait", !.on = ws]]
            /\ UNCHANGED <<ctlSock, alive>>
       ELSE /\ co' = [co EXCEPT ![j] = NoCo]
            /\ ctlSock' = IF ctlSock = j THEN 0 ELSE ctlSock
            /\ alive' = ~EndsProcess(j, TRUE)
  /\ UNCHANGED <<offStation, kind, socks, ws, isConnected, USID, reconnectAttempts, timers, mon,
                 turns, fails, connFails, lastSched, stopped, monBad, early7>>

\* waitForMessage's 5 s timer rejects (monitor.js only: the chaigmai.js waits
\* have no timer)
Timeout(j) ==
  /\ alive /\ co[j].st = "wait" /\ kind = "monitor"
  /\ co' = [co EXCEPT ![j] = NoCo]
  /\ ctlSock' = IF ctlSock = j THEN 0 ELSE ctlSock
  /\ UNCHANGED <<offStation, kind, socks, ws, isConnected, USID, reconnectAttempts, timers, mon,
                 turns, alive, fails, connFails, lastSched, stopped, monBad, early7>>

\* The station sends a message on socket k; every wait listening there sees it,
\* and a wait whose validator rejects it keeps listening.
Hears(j, k, msg) ==
  co[j].st = "wait" /\ co[j].on = k /\ waitForMessage(kind, co[j].step, msg)

AfterResponse(j, msg) ==
  LET c == co[j]
      seen2 == IF StepValidator(kind, c.step, msg) /\ c.seen = c.step - 1
                 THEN c.step ELSE c.seen
  IN IF c.step = LastStep
       THEN NoCo
       ELSE [st |-> "send", step |-> c.step + 1, on |-> 0, seen |-> seen2]

onMessage(k, msg) ==
  /\ alive /\ socks[k] = "open"
  /\ \E j \in Socks : co[j].st = "wait" /\ co[j].on = k
  /\ LET hs == {j \in Socks : Hears(j, k, msg)}
         finishing == {j \in hs : co[j].step = LastStep}
         during0 == /\ msg.id = LastStep /\ msg.shape = "true"
                    /\ \E j \in Socks : co[j].st = "wait" /\ co[j].on = k /\ co[j].step = 0
     IN \* a message that no wait hears changes nothing here but early7
        /\ hs # {} \/ (during0 /\ ~early7)
        /\ co' = [j \in Socks |-> IF j \in hs THEN AfterResponse(j, msg) ELSE co[j]]
        /\ USID' = IF \E j \in hs : co[j].step = 0 THEN 1 ELSE USID
        \* startMonitoring: this.ws.on("message", ...) throws on a null this.ws
        /\ mon' = IF finishing # {} /\ ws # 0 THEN mon \cup {ws} ELSE mon
        /\ monBad' = (monBad \/ \E j \in finishing :
                         ws # 0 /\ ~(co[j].seen = LastStep - 1
                                      /\ StepValidator(kind, LastStep, msg)))
        /\ early7' = (early7 \/ during0)
        /\ ctlSock' = IF ctlSock \in finishing THEN 0 ELSE ctlSock
        /\ alive' = ~(ws = 0 /\ \E j \in finishing : EndsProcess(j, TRUE))
  /\ UNCHANGED <<kind, socks, ws, isConnected, reconnectAttempts, timers, turns,
                 fails, connFails, lastSched, stopped>>

Deliver(k, msg) == onMessage(k, msg) /\ UNCHANGED offStation

\* StationMonitor.disconnect(), called by MonitorController.stop and at the
\* end of a rotation turn
disconnect ==
  /\ alive /\ kind = "monitor" /\ ctlSock = 0 /\ turns > 0
  /\ stopped' = TRUE
  /\ IF ws # 0
       THEN /\ socks' = [socks EXCEPT ![ws] = IF @ = "none" THEN "none" ELSE "closing"]
            /\ ws' = 0
            /\ isConnected' = FALSE
            /\ USID' = 0
       ELSE UNCHANGED <<socks, ws, isConnected, USID>>
  /\ UNCHANGED <<kind, reconnectAttempts, timers, co, mon, ctlSock, turns, alive,
                 fails, connFails, lastSched, monBad, early7>>

Disconnect == disconnect /\ UNCHANGED offStation

\* chaigmai.js: SIGINT / SIGTERM; the handlers call disconnect() and exit
\* after one second, and without the handlers the signal ends the process
ProcessSignal ==
  /\ alive /\ kind = "chiangmai" /\ turns > 0
  /\ alive' = FALSE
  /\ socks' = [k \in Socks |-> IF ctlSock = 0 /\ k = ws /\ socks[k] = "open"
                                  THEN "closing" ELSE socks[k]]
  /\ UNCHANGED <<offStation, kind, ws, isConnected, USID, reconnectAttempts, timers, co, mon,
                 ctlSock, turns, fails, connFails, lastSched, stopped, monBad, early7>>


\* ===================================================== the reading pipeline
NoWrite == [t |-> NoTime, data |-> [o \in monitoredObjects |-> "undefined"],
            saveBefore |-> NoTime]
NoFrame == [t |-> NoTime, nDiff |-> 0, saveBefore |-> NoTime, storedBefore |-> 0,
            issued |-> 0]

\* the buffer before any frame: {} in StationMonitor and ApiDataFetcher (lastData
\* null), null per monitored object in ChiangMaiClient.initializeMeterData
EmptyBuffer(k) ==
  [o \in monitoredObjects |-> IF k = "chiangmai" THEN "null" ELSE "undefined"]

\* updateData / handleWSMessageALL: the strict comparison per monitored object
\* that the frame has a key for
ObjectChanged(buf, sync, o) == sync[o] # "absent" /\ buf[o] # sync[o]

hasChanges_always(buf, sync) == TRUE
hasChanges_firstOnly(buf, sync) == ObjectChanged(buf, sync, "o1")
hasChanges(buf, sync) == \E o \in monitoredObjects : ObjectChanged(buf, sync, o)

updateBuffer(buf, sync) ==
  [o \in monitoredObjects |-> IF ObjectChanged(buf, sync, o) THEN sync[o] ELSE buf[o]]

\* transformApiData: the keys the response has, with their values; lastData is
\* replaced as a whole
transformApiData(sync) ==
  [o \in monitoredObjects |-> IF sync[o] = "absent" THEN "undefined" ELSE sync[o]]

\* saveToDatabase's early return: lastDbSave && now - lastDbSave < dbSaveInterval
Throttled_never(save, t) == FALSE
Throttled(save, t) == save # NoTime /\ t - save < DbSaveInterval

\* how many monitored objects a frame changes, counted apart from the code
DiffCount(buf, sync) ==
  Cardinality({o \in monitoredObjects : sync[o] # "absent" /\ sync[o] # buf[o]})

PipeInit ==
  /\ pkind \in PipeKinds
  /\ dbOn \in BOOLEAN
  /\ now = 0
  /\ dataBuffer = EmptyBuffer(pkind)
  /\ lastUpdate = NoTime
  /\ lastDbSave = NoTime
  /\ inflight = {}
  /\ stored = 0
  /\ nIssued = 0
  /\ lastW = NoWrite
  /\ prevIssueT = NoTime
  /\ lastFrame = NoFrame

Tick ==
  /\ now < MaxClock
  /\ now' = now + 1
  /\ UNCHANGED <<offPipe, pkind, dbOn, dataBuffer, lastUpdate, lastDbSave, inflight,
                 stored, nIssued, lastW, prevIssueT, lastFrame>>

\* the history of one createPowerReading call
Issue(w) ==
  /\ inflight' = inflight \cup {[t |-> w.t, data |-> w.data]}
  /\ nIssued' = nIssued + 1
  /\ prevIssueT' = lastW.t
  /\ lastW' = w

NoIssue == UNCHANGED <<inflight, nIssued, prevIssueT, lastW>>

\* a ScriptEngine notification with sync data reaches the listener of
\* startMonitoring / handleWSMessageALL: updateData, then saveToDatabase up to
\* its await of createPowerReading
Notify(sync) ==
  /\ alive
  /\ pkind # "api"
  /\ LET changed == hasChanges(dataBuffer, sync)
         buf2 == updateBuffer(dataBuffer, sync)
         issue == changed /\ dbOn /\ ~Throttled(lastDbSave, now)
     IN /\ issue => nIssued < MaxWrites
        /\ lastUpdate' = IF pkind = "monitor" THEN now ELSE lastUpdate
        /\ dataBuffer' = buf2
        /\ IF issue
             THEN Issue([t |-> now, data |-> buf2, saveBefore |-> lastDbSave])
             ELSE NoIssue
        /\ lastFrame' = [t |-> now, nDiff |-> DiffCount(dataBuffer, sync),
                         saveBefore |-> lastDbSave, storedBefore |-> stored,
                         issued |-> IF issue THEN 1 ELSE 0]
  /\ UNCHANGED <<offPipe, pkind, dbOn, now, lastDbSave, stored>>

\* ApiDataFetcher: the fetch timer fires, the response is processed by
\* processApiData, and saveToDatabase is called for every response
Poll(sync) ==
  /\ alive
  /\ pkind = "api"
  /\ lastUpdate = NoTime \/ now - lastUpdate >= FetchInterval
  /\ LET data2 == transformApiData(sync)
     IN /\ dbOn => nIssued < MaxWrites
        /\ lastUpdate' = now
        /\ dataBuffer' = data2
        /\ IF dbOn
             THEN Issue([t |-> now, data |-> data2, saveBefore |-> lastDbSave])
             ELSE NoIssue
        /\ lastFrame' = [t |-> now,
                         nDiff |-> Cardinality({o \in monitoredObjects :
                                                  data2[o] # dataBuffer[o]}),
                         saveBefore |-> lastDbSave, storedBefore |-> stored,
                         issued |-> IF dbOn THEN 1 ELSE 0]
  /\ UNCHANGED <<offPipe, pkind, dbOn, now, lastDbSave, stored>>


\* lastDbSave after the awaited createPowerReading of saveToDatabase:
\* `this.lastDbSave = now` follows the await, so a rejection skips it
lastDbSaveAfter_always(save, t, resolved) == t
lastDbSaveAfter(save, t, resolved) == IF resolved THEN t ELSE save

\* createPowerReading resolves: the row is inserted, and a socket station's
\* saveToDatabase records the time it read when it was called
StoreAck(w) ==
  /\ w \in inflight
  /\ inflight' = inflight \ {w}
  /\ stored' = stored + 1
  /\ lastDbSave' = IF pkind = "api" THEN lastDbSave ELSE lastDbSaveAfter(lastDbSave, w.t, TRUE)
  /\ UNCHANGED <<offPipe, pkind, dbOn, now, dataBuffer, lastUpdate, nIssued, lastW,
                 prevIssueT, lastFrame>>

\* the catch of saveToDatabase: the error is logged and the async function
\* returns, so the promise the listener dropped resolves and the process lives on
saveToDatabase_catch_rethrow(a) == FALSE
saveToDatabase_catch(a) == a

\* createPowerReading rejects: saveToDatabase catches and logs, the reading is
\* dropped and lastDbSave keeps its value
StoreFail(w) ==
  /\ w \in inflight
  /\ inflight' = inflight \ {w}
  /\ alive' = saveToDatabase_catch(alive)
  /\ lastDbSave' = IF pkind = "api" THEN lastDbSave ELSE lastDbSaveAfter(lastDbSave, w.t, FALSE)
  /\ UNCHANGED <<stationButAlive, offBoth>>
  /\ UNCHANGED <<pkind, dbOn, now, dataBuffer, lastUpdate, stored,
                 nIssued, lastW, prevIssueT, lastFrame>>

\* The frames that arrive while the buffer is buf. hasChanges and the update
\* loop pass over a key that repeats the buffered value as they pass over a key
\* the frame does not have, so every frame of Frames is taken without such keys.
Arriving(buf) ==
  {[o \in monitoredObjects |-> IF f[o] = buf[o] THEN "absent" ELSE f[o]] : f \in Frames}

PipeNext ==
  \/ Tick
  \/ \E sync \in Arriving(dataBuffer) : Notify(sync)
  \/ \E sync \in Frames : Poll(sync)
  \/ \E w \in inflight : StoreAck(w)
  \/ \E w \in inflight : StoreFail(w)


\* ========================================================= the coordinator
\* controller.monitors
monitors == <<"s1", "s2", "s3">>
Stations == {monitors[i] : i \in 1..Len(monitors)}
Modes == {"rotation", "simultaneous"}
\* a device answers everything, refuses comet.signIn, or cannot be reached
Behaviours == {"good", "signInFails", "unreachable"}
\* initialize makes an ApiDataFetcher for a station whose address is a http
\* data URL and a StationMonitor for every other
Classes == {"StationMonitor", "ApiDataFetcher"}

\* this.currentIndex = (this.currentIndex + 1) % this.monitors.length
NextIndex(i) == (i % Len(monitors)) + 1

\* handleReconnect's else branch logs the exhausted budget and returns: main
\* stays where it is
handleReconnect_else_exit(p) == "crashed"
handleReconnect_else(p) == p

FleetAllowed(s) == ReconnectAllowed(attempts[s], "monitor")

\* the close listener of one monitor: handleReconnect
AfterClose(s) == IF FleetAllowed(s) THEN "waiting" ELSE "exhausted"
AttemptsAfterClose(s) ==
  [attempts EXCEPT ![s] = IF FleetAllowed(s) THEN @ + 1 ELSE @]
PcAfterClose(s) == IF FleetAllowed(s) THEN pc ELSE handleReconnect_else(pc)

ProcessRuns == pc \in {"rot", "sim", "idle"}
\* the rotation turn is at phase ph of station s
TurnAt(s, ph) == pc = "rot" /\ monitors[currentIndex] = s /\ turn = ph

\* the try block of the station's task in startSimultaneous ends, by its last
\* await or by the catch
TaskEnds(s) == [task EXCEPT ![s] = IF @ = "run" THEN "done" ELSE @]

FleetInit ==
  /\ mode \in Modes
  /\ cls \in [Stations -> Classes]
  /\ behav \in [Stations -> Behaviours]
  /\ \A s \in Stations : cls[s] = "ApiDataFetcher" => behav[s] = "good"
  /\ hadTurn = {}
  /\ pc = "start"
  /\ isRunning = FALSE
  /\ currentIndex = 1
  /\ turn = "none"
  /\ sess = [s \in Stations |-> "none"]
  /\ attempts = [s \in Stations |-> 0]
  /\ task = [s \in Stations |-> "none"]
  /\ seen = [s \in Stations |-> FALSE]
  /\ allData = {}
  /\ handler = FALSE
  /\ summary = [printed |-> FALSE, stations |-> {}]
  /\ chiangMaiProcess = FALSE

\* the loop iterations of startRotation that begin at index i. For an
\* ApiDataFetcher monitor.connect is not a function: the call throws before
\* anything is awaited, the catch moves the index on and the loop goes round at
\* once. TurnTarget is the first StationMonitor met (0 when there is none),
\* TurnsBegun the monitors whose iteration began on the way.
RECURSIVE TurnTarget(_, _)
TurnTarget(i, n) ==
  IF n = 0 THEN 0
  ELSE IF cls[monitors[i]] = "StationMonitor" THEN i
  ELSE TurnTarget(NextIndex(i), n - 1)

RECURSIVE TurnsBegun(_, _)
TurnsBegun(i, n) ==
  IF n = 0 THEN {}
  ELSE IF cls[monitors[i]] = "StationMonitor" THEN {monitors[i]}
  ELSE {monitors[i]} \cup TurnsBegun(NextIndex(i), n - 1)

BeginTurn(sess1, i) ==
  LET j == TurnTarget(i, Len(monitors))
  IN /\ hadTurn' = hadTurn \cup TurnsBegun(i, Len(monitors))
     /\ IF j = 0
          THEN currentIndex' = i /\ turn' = "none" /\ sess' = sess1
          ELSE /\ currentIndex' = j
               /\ turn' = "connect"
               /\ sess' = [sess1 EXCEPT ![monitors[j]] = "connecting"]

\* main calls startRotation: the first turn calls connect() of monitors[0].
\* With no StationMonitor at all the loop never reaches an await ("spin")
StartRotation ==
  /\ pc = "start" /\ mode = "rotation"
  /\ pc' = IF TurnTarget(currentIndex, Len(monitors)) = 0 THEN "spin" ELSE "rot"
  /\ isRunning' = TRUE
  /\ BeginTurn(sess, currentIndex)
  /\ UNCHANGED <<offFleet, mode, behav, cls, attempts, task, seen, allData,
                 handler, summary, chiangMaiProcess>>

\* main calls startSimultaneous: the child process is spawned and monitors.map
\* runs every task up to its first await, inside connect() or start()
StartSimultaneous ==
  /\ pc = "start" /\ mode = "simultaneous"
  /\ pc' = "sim"
  /\ isRunning' = TRUE
  /\ chiangMaiProcess' = TRUE
  /\ task' = [s \in Stations |-> "run"]
  /\ sess' = [s \in Stations |->
                IF cls[s] = "StationMonitor" THEN "connecting" ELSE "starting"]
  /\ UNCHANGED <<offFleet, mode, behav, cls, hadTurn, currentIndex, turn, attempts,
                 seen, allData, handler, summary>>

\* the catch of startRotation's loop body, and the end of a turn: the index
\* moves on and the next iteration calls connect() of the next monitor
NextTurn(sess1) == BeginTurn(sess1, NextIndex(currentIndex))

\* the open listener of connect(): the counter is reset and connect() resolves
FleetOpen(s) ==
  /\ ProcessRuns
  /\ sess[s] = "connecting" /\ behav[s] # "unreachable"
  /\ sess' = [sess EXCEPT ![s] = "open"]
  /\ attempts' = [attempts EXCEPT ![s] = 0]
  /\ turn' = IF TurnAt(s, "connect") THEN "init" ELSE turn
  /\ UNCHANGED <<offFleet, mode, behav, cls, hadTurn, pc, isRunning, currentIndex, task, seen,
                 allData, handler, summary, chiangMaiProcess>>

\* the error and close listeners of connect(): connect() rejects, which the
\* task's or the turn's catch logs, and handleReconnect runs
FleetConnFail(s) ==
  /\ ProcessRuns
  /\ sess[s] = "connecting" /\ behav[s] = "unreachable"
  /\ attempts' = AttemptsAfterClose(s)
  /\ pc' = PcAfterClose(s)
  /\ task' = TaskEnds(s)
  /\ IF TurnAt(s, "connect")
       THEN NextTurn([sess EXCEPT ![s] = AfterClose(s)])
       ELSE /\ sess' = [sess EXCEPT ![s] = AfterClose(s)]
            /\ UNCHANGED <<currentIndex, turn, hadTurn>>
  /\ UNCHANGED <<offFleet, mode, behav, cls, isRunning, seen, allData, handler, summary,
                 chiangMaiProcess>>

\* the timer of handleReconnect fires: connect()
FleetRetry(s) ==
  /\ ProcessRuns
  /\ sess[s] = "waiting"
  /\ sess' = [sess EXCEPT ![s] = "connecting"]
  /\ UNCHANGED <<offFleet, mode, behav, cls, hadTurn, pc, isRunning, currentIndex, turn, attempts,
                 task, seen, allData, handler, summary, chiangMaiProcess>>

\* initializeSession resolves: startMonitoring has put its listener on
FleetSessionUp(s) ==
  /\ ProcessRuns
  /\ sess[s] = "open" /\ behav[s] = "good"
  /\ sess' = [sess EXCEPT ![s] = "streaming"]
  /\ task' = TaskEnds(s)
  /\ turn' = IF TurnAt(s, "init") THEN "sleep" ELSE turn
  /\ UNCHANGED <<offFleet, mode, behav, cls, hadTurn, pc, isRunning, currentIndex, attempts, seen,
                 allData, handler, summary, chiangMaiProcess>>

\* initializeSession rejects (Message timeout on comet.signIn): the caller's
\* catch logs it and the socket stays open
FleetSignInFails(s) ==
  /\ ProcessRuns
  /\ sess[s] = "open" /\ behav[s] = "signInFails"
  /\ task' = TaskEnds(s)
  /\ IF TurnAt(s, "init")
       THEN NextTurn([sess EXCEPT ![s] = "stuck"])
       ELSE /\ sess' = [sess EXCEPT ![s] = "stuck"]
            /\ UNCHANGED <<currentIndex, turn, hadTurn>>
  /\ UNCHANGED <<offFleet, mode, behav, cls, pc, isRunning, attempts, seen, allData,
                 handler, summary, chiangMaiProcess>>

\* the socket of a session drops: the close listener runs handleReconnect
FleetDrop(s) ==
  /\ ProcessRuns
  /\ sess[s] \in {"streaming", "stuck"}
  /\ sess' = [sess EXCEPT ![s] = AfterClose(s)]
  /\ attempts' = AttemptsAfterClose(s)
  /\ pc' = PcAfterClose(s)
  /\ UNCHANGED <<offFleet, mode, behav, cls, hadTurn, isRunning, currentIndex, turn, task, seen,
                 allData, handler, summary, chiangMaiProcess>>

\* ApiDataFetcher.start resolves: the station record is looked up, the first
\* fetch is done and the interval timer is set
FleetApiStarted(s) ==
  /\ ProcessRuns
  /\ sess[s] = "starting"
  /\ sess' = [sess EXCEPT ![s] = "polling"]
  /\ task' = TaskEnds(s)
  /\ UNCHANGED <<offFleet, mode, behav, cls, hadTurn, pc, isRunning, currentIndex, turn,
                 attempts, seen, allData, handler, summary, chiangMaiProcess>>

\* a notification with sync data reaches updateData, or a response reaches
\* processApiData
FleetReading(s) ==
  /\ ProcessRuns
  /\ sess[s] \in {"streaming", "polling"}
  /\ seen' = [seen EXCEPT ![s] = TRUE]
  /\ UNCHANGED <<offFleet, mode, behav, cls, hadTurn, pc, isRunning, currentIndex, turn, sess,
                 attempts, task, allData, handler, summary, chiangMaiProcess>>

\* sleep(cycleDelay) is over: the snapshot is pushed, disconnect() closes the
\* socket (whose close listener runs handleReconnect) and the next turn starts
RotationTurnEnds ==
  /\ pc = "rot" /\ turn = "sleep" /\ isRunning
  /\ LET s == monitors[currentIndex]
         live == sess[s] \in {"connecting", "open", "streaming", "stuck"}
     IN /\ allData' = allData \cup {s}
        /\ attempts' = IF live THEN AttemptsAfterClose(s) ELSE attempts
        /\ pc' = IF live THEN PcAfterClose(s) ELSE pc
        /\ NextTurn(IF live THEN [sess EXCEPT ![s] = AfterClose(s)] ELSE sess)
  /\ UNCHANGED <<offFleet, mode, behav, cls, isRunning, task, seen, handler, summary,
                 chiangMaiProcess>>

\* Promise.allSettled resolves, startSimultaneous returns and main installs its
\* SIGINT listener
AllSettled ==
  /\ pc = "sim"
  /\ \A s \in Stations : task[s] = "done"
  /\ pc' = "idle"
  /\ handler' = TRUE
  /\ UNCHANGED <<offFleet, mode, behav, cls, hadTurn, isRunning, currentIndex, turn, sess, attempts,
                 task, seen, allData, summary, chiangMaiProcess>>

\* SIGINT reaches the process: main's listener runs stop, getSummary and
\* process.exit(0); with no listener installed the signal ends the process
Sigint ==
  /\ pc \in {"start", "rot", "spin", "sim", "idle"}
  /\ IF handler
       THEN /\ isRunning' = FALSE
            /\ chiangMaiProcess' = FALSE
            /\ sess' = [s \in Stations |-> "none"]
            /\ summary' = [printed |-> TRUE, stations |-> allData]
            /\ pc' = "exit0"
       ELSE /\ pc' = "killed"
            /\ UNCHANGED <<isRunning, chiangMaiProcess, sess, summary>>
  /\ UNCHANGED <<offFleet, mode, behav, cls, hadTurn, currentIndex, turn, attempts, task, seen,
                 allData, handler>>

FleetNext ==
  \/ StartRotation
  \/ StartSimultaneous
  \/ \E s \in Stations : FleetOpen(s)
  \/ \E s \in Stations : FleetConnFail(s)
  \/ \E s \in Stations : FleetRetry(s)
  \/ \E s \in Stations : FleetSessionUp(s)
  \/ \E s \in Stations : FleetSignInFails(s)
  \/ \E s \in Stations : FleetDrop(s)
  \/ \E s \in Stations : FleetApiStarted(s)
  \/ \E s \in Stations : FleetReading(s)
  \/ RotationTurnEnds
  \/ AllSettled
  \/ Sigint

\* ================================================ the monitored-object list
\* config.monitoredObjects, the default list
DefaultObjects == {"d1", "d2"}
\* object ids a station's rows in the store can hold
StoredIds == {"i1", "i2"}
\* what a store call does: it answers, or it throws
Outcomes == {"ok", "throws"}
\* the messages a failed createPowerReading can carry, as the catch of
\* saveToDatabase sorts them: including "Connection" or "database", or not
ErrorKinds == {"connection", "other"}

\* loadMonitoredObjects: the stored ids when the lookup answers with at least
\* one row, the default list when it answers with none or throws
loadMonitoredObjects_noFallback(lookup, rows) ==
  IF lookup = "throws" THEN DefaultObjects ELSE rows
loadMonitoredObjects(lookup, rows) ==
  IF lookup = "throws" THEN DefaultObjects
  ELSE IF Cardinality(rows) > 0 THEN rows
  ELSE DefaultObjects

\* initializeStationInDatabase: what it leaves in this.monitoredObjects, and
\* whether an exception leaves it
initializeStationInDatabase(db, find, lookup, rows) ==
  IF ~db THEN [objects |-> DefaultObjects, threw |-> FALSE]
  ELSE IF find = "throws" THEN [objects |-> DefaultObjects, threw |-> FALSE]
  ELSE [objects |-> loadMonitoredObjects(lookup, rows), threw |-> FALSE]

NoLoad == [called |-> FALSE, db |-> FALSE, find |-> "ok", lookup |-> "ok",
           rows |-> {}, threw |-> FALSE]

\* a list's elements in the list's order
RECURSIVE AsList(_)
AsList(S) ==
  IF S = {} THEN <<>>
  ELSE LET x == CHOOSE y \in S : TRUE IN <<x>> \o AsList(S \ {x})

\* the id list of step 7: [...this.monitoredObjects, -1]
registerActiveObjects_noSentinel(objects) == AsList(objects)
registerActiveObjects(objects) == Append(AsList(objects), Sentinel)

NoRegister == [sent |-> FALSE, ids |-> <<>>, load |-> NoLoad]

LoadInit ==
  /\ registered = NoRegister
  /\ databaseService \in BOOLEAN
  /\ stationRecord = FALSE
  /\ objs = {}
  /\ storeRows \in SUBSET StoredIds
  /\ phase = "idle"
  /\ reloadTimers = 0
  /\ lastLoad = NoLoad
  /\ sessionObjs = {}

\* one call of initializeStationInDatabase against the store as it is
Load(find, lookup) ==
  LET r == initializeStationInDatabase(databaseService, find, lookup, storeRows)
  IN /\ objs' = r.objects
     /\ stationRecord' = IF databaseService /\ find = "ok" THEN TRUE ELSE stationRecord
     /\ lastLoad' = [called |-> TRUE, db |-> databaseService, find |-> find,
                     lookup |-> lookup, rows |-> storeRows, threw |-> r.threw]

\* initializeSession begins: it awaits initializeStationInDatabase first
SessionStart(find, lookup) ==
  /\ phase = "idle"
  /\ Load(find, lookup)
  /\ phase' = "session"
  /\ sessionObjs' = objs'
  /\ registered' = NoRegister
  /\ UNCHANGED <<offLoad, databaseService, storeRows, reloadTimers>>

\* initializeSession reaches step 7 and sends registerActiveObjects
Register ==
  /\ phase = "session" /\ ~registered.sent
  /\ registered' = [sent |-> TRUE, ids |-> registerActiveObjects(objs), load |-> lastLoad]
  /\ UNCHANGED <<offLoad, databaseService, stationRecord, objs, storeRows, phase,
                 reloadTimers, lastLoad, sessionObjs>>

\* createPowerReading rejects inside saveToDatabase: the catch logs, and for a
\* message that includes "Connection" or "database" sets a 5 s timer for
\* initializeStationInDatabase
SaveFails(err) ==
  /\ phase = "session"
  /\ databaseService /\ stationRecord
  /\ err = "connection" => reloadTimers < MaxReloads
  /\ reloadTimers' = IF err = "connection" THEN reloadTimers + 1 ELSE reloadTimers
  /\ UNCHANGED <<offLoad, databaseService, stationRecord, objs, storeRows, phase,
                 lastLoad, sessionObjs, registered>>

\* the timer of saveToDatabase's catch fires
ReloadTimer(find, lookup) ==
  /\ reloadTimers > 0
  /\ reloadTimers' = reloadTimers - 1
  /\ Load(find, lookup)
  /\ UNCHANGED <<offLoad, databaseService, storeRows, phase, sessionObjs, registered>>

\* the station's rows are replaced in the store (updateStationMonitoredObjects)
StoreUpdate(rows) ==
  /\ rows # storeRows
  /\ storeRows' = rows
  /\ UNCHANGED <<offLoad, databaseService, stationRecord, objs, phase, reloadTimers,
                 lastLoad, sessionObjs, registered>>

\* the session's socket closes, or disconnect() is called
SessionEnd ==
  /\ phase = "session"
  /\ phase' = "idle"
  /\ UNCHANGED <<offLoad, databaseService, stationRecord, objs, storeRows,
                 reloadTimers, lastLoad, sessionObjs, registered>>

LoadNext ==
  \/ \E find \in Outcomes, lookup \in Outcomes : SessionStart(find, lookup)
  \/ Register
  \/ \E err \in ErrorKinds : SaveFails(err)
  \/ \E find \in Outcomes, lookup \in Outcomes : ReloadTimer(find, lookup)
  \/ \E rows \in SUBSET StoredIds : StoreUpdate(rows)
  \/ SessionEnd

\* ============================================================ normalization
\* Objects are functions over Props with "absent" for a key the object does not
\* have. Numbers are written as their decimal strings; "7abc" and "bad" are
\* strings, "null" is null.
activePowerMap ==
  << [id |-> "8684", field |-> "activePower1"], [id |-> "8685", field |-> "activePower2"],
     [id |-> "8686", field |-> "activePower3"], [id |-> "8687", field |-> "activePower4"],
     [id |-> "8688", field |-> "activePower5"], [id |-> "8689", field |-> "activePower6"] >>

\* Object.entries lists integer keys in ascending order, whatever the order of
\* the literal: this is the order the forEach of transformPowerData runs in
muxPowerMap_standardOnly ==
  << [id |-> "18069", field |-> "muxPower1"], [id |-> "18070", field |-> "muxPower2"],
     [id |-> "73909", field |-> "muxPower3"], [id |-> "73910", field |-> "muxPower4"],
     [id |-> "75428", field |-> "muxPower5"], [id |-> "75429", field |-> "muxPower6"] >>
muxPowerMap ==
  << [id |-> "18053", field |-> "muxPower6"], [id |-> "18069", field |-> "muxPower1"],
     [id |-> "18070", field |-> "muxPower2"], [id |-> "73909", field |-> "muxPower3"],
     [id |-> "73910", field |-> "muxPower4"], [id |-> "75428", field |-> "muxPower5"],
     [id |-> "75429", field |-> "muxPower6"], [id |-> "75432", field |-> "muxPower5"],
     [id |-> "75441", field |-> "muxPower5"], [id |-> "75483", field |-> "muxPower5"],
     [id |-> "75484", field |-> "muxPower6"], [id |-> "75519", field |-> "muxPower6"],
     [id |-> "224272", field |-> "muxPower5"] >>

directFields ==
  << "activePower1", "activePower2", "activePower3", "activePower4", "activePower5",
     "activePower6", "muxPower1", "muxPower2", "muxPower3", "muxPower4", "muxPower5",
     "muxPower6" >>

\* transformApiData: mux1..mux6, then power1..power6
apiMap ==
  << [id |-> "mux1", field |-> "muxPower1"], [id |-> "mux2", field |-> "muxPower2"],
     [id |-> "mux3", field |-> "muxPower3"], [id |-> "mux4", field |-> "muxPower4"],
     [id |-> "mux5", field |-> "muxPower5"], [id |-> "mux6", field |-> "muxPower6"],
     [id |-> "power1", field |-> "activePower1"], [id |-> "power2", field |-> "activePower2"],
     [id |-> "power3", field |-> "activePower3"], [id |-> "power4", field |-> "activePower4"],
     [id |-> "power5", field |-> "activePower5"], [id |-> "power6", field |-> "activePower6"] >>

Range(seq) == {seq[i] : i \in 1..Len(seq)}
Fields == Range(directFields)
TableIds(table) == {e.id : e \in Range(table)}
\* a raw id of no table
UnknownId == "99999"
\* the keys frames are built from, in the order a frame is filled in
KeySeq ==
  << "8684", "18053", "18069", "18070", "73909", "73910", "75428", "75429", "75432",
     "75441", "75483", "75484", "75519", UnknownId, "224272", "muxPower5", "mux5",
     "power1" >>
Keys == Range(KeySeq)
Props ==
  Fields \cup Keys \cup TableIds(activePowerMap) \cup TableIds(muxPowerMap)
    \cup TableIds(apiMap)
\* the values of a frame's keys
RawValues == {"5", "2000000000", "7abc", "bad", "null"}

NoProps == [k \in Props |-> "absent"]
hasOwnProperty(obj, k) == obj[k] # "absent"
OwnKeys(obj) == {k \in Props : hasOwnProperty(obj, k)}

\* parseFloat: a number is itself, a string parses to its longest numeric
\* prefix, anything else (null included) to NaN
parseFloat(v) ==
  CASE v = "5" -> "5"
    [] v = "7" -> "7"
    [] v = "2000000000" -> "2000000000"
    [] v = "7abc" -> "7"
    [] OTHER -> "NaN"

\* isNaN(value) ? null : value
NullIfNaN(v) == IF parseFloat(v) = "NaN" THEN "null" ELSE parseFloat(v)

\* one forEach over a table: dbData[field] is assigned for every id the frame has
RECURSIVE ApplyTable(_, _, _)
ApplyTable(table, obj, db) ==
  IF table = <<>> THEN db
  ELSE LET e == Head(table)
       IN ApplyTable(Tail(table), obj,
                     IF hasOwnProperty(obj, e.id)
                       THEN [db EXCEPT ![e.field] = NullIfNaN(obj[e.id])]
                       ELSE db)

directTable == [i \in 1..Len(directFields) |-> [id |-> directFields[i], field |-> directFields[i]]]

\* const dbData = {}
dbData0_copy(obj) == obj
dbData0(obj) == NoProps

\* the forEach over directFields
transformDirect_skip(obj, db) == db
transformDirect(obj, db) == ApplyTable(directTable, obj, db)

\* the field the tables of transformPowerData give a key, "unmapped" for none
FieldOf(k) ==
  IF k \in Fields THEN k
  ELSE IF \E e \in Range(activePowerMap) \cup Range(muxPowerMap) : e.id = k
    THEN (CHOOSE e \in Range(activePowerMap) \cup Range(muxPowerMap) : e.id = k).field
  ELSE "unmapped"

transformPowerData(obj) ==
  transformDirect(obj,
    ApplyTable(muxPowerMap, obj, ApplyTable(activePowerMap, obj, dbData0(obj))))

\* ApiDataFetcher.transformApiData on the response's keys
transformApiDataKeys(obj) == ApplyTable(apiMap, obj, dbData0(obj))

\* the number a parsed value stands for
NumValue(n) ==
  CASE n = "5" -> 5
    [] n = "7" -> 7
    [] n = "2000000000" -> 2000000000

\* validatePowerData on an object: a warning per key whose value is out of its
\* advisory range, and (one call in ten, here: when coin) per key whose value
\* does not parse; null and other object values are skipped; isValid stays true
validatePowerData_strict(obj, coin) ==
  [isValid |-> \A k \in OwnKeys(obj) : parseFloat(obj[k]) # "NaN",
   warnings |-> {}]
validatePowerData(obj, coin) ==
  [isValid |-> TRUE,
   warnings |->
     {k \in OwnKeys(obj) :
        /\ obj[k] # "null"
        /\ IF parseFloat(obj[k]) = "NaN" THEN coin
           ELSE \/ /\ k \in TableIds(activePowerMap)
                   /\ NumValue(parseFloat(obj[k])) > ActiveMax
                \/ /\ k \in {"18069", "18070", "73909", "73910", "75428", "75429"}
                   /\ NumValue(parseFloat(obj[k])) > MuxMax}]

\* field.startsWith('mux'), field.startsWith('power') over the keys of the model
StartsWithMux(k) ==
  k \in {"mux1", "mux2", "mux3", "mux4", "mux5", "mux6"}
          \cup {f \in Fields : \E e \in Range(muxPowerMap) : e.field = f}
StartsWithPower(k) == k \in {"power1", "power2", "power3", "power4", "power5", "power6"}

\* ApiDataFetcher.validateApiData on an object: warnings only
validateApiData(obj) ==
  [isValid |-> TRUE,
   warnings |->
     {k \in OwnKeys(obj) :
        /\ StartsWithMux(k) \/ StartsWithPower(k)
        /\ IF parseFloat(obj[k]) = "NaN" THEN TRUE
           ELSE NumValue(parseFloat(obj[k])) >
                  (IF StartsWithMux(k) THEN MuxMax ELSE ActiveMax)}
     \cup (IF {"mux1", "mux2", "power1", "power2"} \subseteq OwnKeys(obj)
             THEN {} ELSE {"missing required fields"})]

\* stored maps of a station: one that agrees with the tables, one that is an
\* alternative id of the tables, one that gives a table's id another field, one
\* whose id no table has
ObjectMaps ==
  { ("activePower1" :> "8684") @@ ("muxPower5" :> "75428"),
    ("muxPower5" :> "224272") @@ ("muxPower6" :> "18053"),
    ("muxPower6" :> "75428") @@ ("activePower1" :> "8684"),
    ("activePower1" :> UnknownId) @@ ("muxPower5" :> "75428") }

NormInit ==
  /\ path \in {"socket", "api"}
  /\ powerData = NoProps
  /\ lastData = NoProps
  /\ validation = [isValid |-> TRUE, warnings |-> {}]
  /\ written = FALSE
  /\ dbData = NoProps

\* the frame gets one more key (keys are added in the order of KeySeq: a frame
\* is the same object whatever order its keys were set in)
NextKeys ==
  LET used == {i \in 1..Len(KeySeq) : hasOwnProperty(powerData, KeySeq[i])}
  IN IF Cardinality(used) >= MaxKeys THEN {}
     ELSE {KeySeq[i] : i \in {j \in 1..Len(KeySeq) : \A u \in used : u < j}}

PutKey(k, v) ==
  /\ k \in NextKeys
  /\ powerData' = [powerData EXCEPT ![k] = v]

\* a socket station's buffer gets a value and saveToDatabase runs: the buffer
\* is validated and, when valid, createPowerReading transforms it for the store
FeedSocket(k, v, coin) ==
  /\ path = "socket"
  /\ PutKey(k, v)
  /\ validation' = validatePowerData(powerData', coin)
  /\ written' = validation'.isValid
  /\ dbData' = IF validation'.isValid THEN transformPowerData(powerData') ELSE dbData
  /\ UNCHANGED <<offNorm, path, lastData>>

\* an API response is processed: validated, transformed into lastData, and
\* createPowerReading transforms lastData for the store
FeedApi(k, v) ==
  /\ path = "api"
  /\ PutKey(k, v)
  /\ validation' = validateApiData(powerData')
  /\ lastData' = IF validation'.isValid THEN transformApiDataKeys(powerData') ELSE lastData
  /\ written' = validation'.isValid
  /\ dbData' = IF validation'.isValid THEN transformPowerData(lastData') ELSE dbData
  /\ UNCHANGED <<offNorm, path>>

NormNext ==
  \/ \E k \in NextKeys, v \in RawValues, coin \in BOOLEAN : FeedSocket(k, v, coin)
  \/ \E k \in NextKeys, v \in RawValues : FeedApi(k, v)

\* ====================================================== the DatabaseService
\* the monitors that share the service
Callers == {"c1", "c2"}
\* station names of the configurations, and name.trim()
ConfigNames == {"A", " A", "B"}
trim(n) == IF n = " A" THEN "A" ELSE n
\* ipAddress and scene of a configuration, taken together
Endpoints == {"e1", "e2"}
\* what a prisma call does: it answers, it rejects with a message that
\* isConnectionError accepts ("database is locked", ...), or with another
PrismaOutcomes == {"ok", "connErr", "otherErr"}

NoCall == [op |-> "none", pc |-> "idle", try |-> 0, name |-> "A", ep |-> "e1",
           had |-> 0, found |-> 0, n |-> 0, result |-> 0]

\* the rows with a name
RowsNamed(rows, n) == {r \in rows : r.name = n}
\* prisma.station.findUnique({ where: { name } }): the row's id, 0 for null
findUnique(rows, n) ==
  IF RowsNamed(rows, n) = {} THEN 0 ELSE (CHOOSE r \in RowsNamed(rows, n) : TRUE).id

\* the unique index stations_name_key rejects a second row of a name
stations_name_key_dropped(rows, n) == FALSE
stations_name_key(rows, n) == RowsNamed(rows, n) # {}

\* the catch of executeOperation: after a connection error of the first run it
\* reconnects and runs the operation once more; everything else is thrown on
executeOperation_catch(call, out) ==
  IF out = "connErr" /\ call.try = 1
    THEN [call EXCEPT !.pc = "reconnect"]
    ELSE [call EXCEPT !.pc = "threw"]

\* where an operation starts
FirstStep(op) == IF op = "station" THEN "find" ELSE "insert"

StoreInit ==
  /\ stRows = {}
  /\ born = {}
  /\ nextId = 1
  /\ calls = [c \in Callers |-> NoCall]
  /\ nCalls = 0
  /\ readings = 0

CanBegin(c) == calls[c].pc \in {"idle", "done", "threw"} /\ nCalls < MaxCalls

\* findOrCreateStation(stationConfig) is called
BeginStation(c, name, ep) ==
  /\ CanBegin(c)
  /\ calls' = [calls EXCEPT ![c] = [NoCall EXCEPT !.op = "station", !.pc = "find",
                                      !.try = 1, !.name = name, !.ep = ep,
                                      !.had = findUnique(stRows, trim(name))]]
  /\ nCalls' = nCalls + 1
  /\ UNCHANGED <<offStore, stRows, born, nextId, readings>>

\* createPowerReading(readingData) is called
BeginReading(c) ==
  /\ CanBegin(c)
  /\ calls' = [calls EXCEPT ![c] = [NoCall EXCEPT !.op = "reading", !.pc = "insert",
                                      !.try = 1]]
  /\ nCalls' = nCalls + 1
  /\ UNCHANGED <<offStore, stRows, born, nextId, readings>>

\* await prisma.station.findUnique
Find(c, out) ==
  /\ calls[c].pc = "find"
  /\ LET call == calls[c]
         id == findUnique(stRows, trim(call.name))
         needsUpdate == \E r \in stRows : r.id = id /\ r.ep # call.ep
     IN calls' = [calls EXCEPT ![c] =
          IF out # "ok" THEN executeOperation_catch(call, out)
          ELSE IF id = 0 THEN [call EXCEPT !.pc = "create"]
          ELSE IF needsUpdate THEN [call EXCEPT !.pc = "update", !.found = id]
          ELSE [call EXCEPT !.pc = "done", !.found = id, !.result = id]]
  /\ UNCHANGED <<offStore, stRows, born, nextId, nCalls, readings>>

\* await prisma.station.update({ where: { id }, data: { ipAddress, scene } })
Update(c, out) ==
  /\ calls[c].pc = "update"
  /\ LET call == calls[c]
     IN IF out = "ok"
          THEN /\ stRows' = {IF r.id = call.found THEN [r EXCEPT !.ep = call.ep] ELSE r :
                               r \in stRows}
               /\ calls' = [calls EXCEPT ![c] = [call EXCEPT !.pc = "done",
                                                              !.result = call.found]]
          ELSE /\ calls' = [calls EXCEPT ![c] = executeOperation_catch(call, out)]
               /\ UNCHANGED stRows
  /\ UNCHANGED <<offStore, born, nextId, nCalls, readings>>

\* await prisma.station.create: the unique index rejects a name that has a row
Create(c, out) ==
  /\ calls[c].pc = "create"
  /\ LET call == calls[c]
         n == trim(call.name)
     IN IF out = "ok" /\ ~stations_name_key(stRows, n)
          THEN /\ stRows' = stRows \cup {[id |-> nextId, name |-> n, ep |-> call.ep]}
               /\ born' = born \cup {[id |-> nextId, name |-> n]}
               /\ nextId' = nextId + 1
               /\ calls' = [calls EXCEPT ![c] = [call EXCEPT !.pc = "done",
                                                              !.result = nextId]]
          ELSE /\ calls' = [calls EXCEPT ![c] =
                              executeOperation_catch(call, IF out = "ok" THEN "otherErr"
                                                           ELSE out)]
               /\ UNCHANGED <<stRows, born, nextId>>
  /\ UNCHANGED <<offStore, nCalls, readings>>

\* await prisma.powerReading.create
Insert(c, out) ==
  /\ calls[c].pc = "insert"
  /\ LET call == [calls[c] EXCEPT !.n = @ + 1]
     IN IF out = "ok"
          THEN /\ readings' = readings + 1
               /\ calls' = [calls EXCEPT ![c] = [call EXCEPT !.pc = "done"]]
          ELSE /\ calls' = [calls EXCEPT ![c] = executeOperation_catch(call, out)]
               /\ UNCHANGED readings
  /\ UNCHANGED <<offStore, stRows, born, nextId, nCalls>>

\* the catch's await this.connect(), then the operation once more
Reconnect(c, ok) ==
  /\ calls[c].pc = "reconnect"
  /\ LET call == calls[c]
     IN calls' = [calls EXCEPT ![c] =
                    IF ok THEN [call EXCEPT !.pc = FirstStep(call.op), !.try = 2]
                    ELSE [call EXCEPT !.pc = "threw"]]
  /\ UNCHANGED <<offStore, stRows, born, nextId, nCalls, readings>>

StoreNext ==
  \/ \E c \in Callers, name \in ConfigNames, ep \in Endpoints : BeginStation(c, name, ep)
  \/ \E c \in Callers : BeginReading(c)
  \/ \E c \in Callers, out \in PrismaOutcomes : Find(c, out)
  \/ \E c \in Callers, out \in PrismaOutcomes : Update(c, out)
  \/ \E c \in Callers, out \in PrismaOutcomes : Create(c, out)
  \/ \E c \in Callers, out \in PrismaOutcomes : Insert(c, out)
  \/ \E c \in Callers, ok \in BOOLEAN : Reconnect(c, ok)

\* ========================================================= the HTTP poller
\* what one fetch brings: fetchApiData rejects (no connection, timeout, status
\* other than 200, a body that is not JSON); it resolves with an object; it
\* resolves with JSON that is no object (null, a number, a string); it resolves
\* with an object on which processApiData throws
FetchOutcomes == {"rejects", "object", "nonObject", "processThrows"}

\* processApiData: errorCount after a response
processApiData(n, out) ==
  CASE out = "object" -> 0
    [] out = "nonObject" -> n
    [] out = "processThrows" -> n + 1

\* the test of fetchAndProcess, before the fetch and in its catch
TooManyErrors(n) == n >= ApiMaxErrors

PollInit ==
  /\ apiRunning = FALSE
  /\ errorCount = 0
  /\ fetchTimer = "none"
  /\ nFetch = 0
  /\ consec = 0
  /\ selfStopped = FALSE

\* fetchAndProcess; its stop() sets isRunning = false and clears the interval
\* timer when there is one
fetchAndProcess(out) ==
  /\ nFetch' = nFetch + 1
  /\ IF TooManyErrors(errorCount)
       THEN /\ apiRunning' = FALSE
            /\ selfStopped' = TRUE
            /\ UNCHANGED <<errorCount, consec>>
       ELSE IF out = "rejects"
         THEN /\ errorCount' = errorCount + 1
              /\ consec' = consec + 1
              /\ apiRunning' = (apiRunning /\ ~TooManyErrors(errorCount'))
              /\ selfStopped' = (selfStopped \/ TooManyErrors(errorCount'))
         ELSE /\ errorCount' = processApiData(errorCount, out)
              /\ consec' = 0
              /\ UNCHANGED <<apiRunning, selfStopped>>

\* start(): isRunning = true, errorCount = 0, and the initial fetch is awaited
ApiStart ==
  /\ ~apiRunning /\ fetchTimer = "none"
  /\ apiRunning' = TRUE
  /\ errorCount' = 0
  /\ fetchTimer' = "first"
  /\ UNCHANGED <<offPoll, nFetch, consec, selfStopped>>

\* the initial fetch of start() ends, and start() sets the interval timer
FirstFetch(out) ==
  /\ fetchTimer = "first" /\ nFetch < MaxFetches
  /\ fetchAndProcess(out)
  /\ fetchTimer' = "set"
  /\ UNCHANGED offPoll

\* the interval timer fires: fetchAndProcess when isRunning
TimerFetch(out) ==
  /\ fetchTimer = "set" /\ apiRunning /\ nFetch < MaxFetches
  /\ fetchAndProcess(out)
  /\ fetchTimer' = IF apiRunning' THEN "set" ELSE "cleared"
  /\ UNCHANGED offPoll

PollNext ==
  \/ ApiStart
  \/ \E out \in FetchOutcomes : FirstFetch(out)
  \/ \E out \in FetchOutcomes : TimerFetch(out)

\* ================================================ overlapping start() calls
\* start() and stop() of one ApiDataFetcher with the awaits of start() as
\* separate steps, so that a second call can run while an earlier one waits.
StartCalls == 1..MaxApiStarts

CallInit == startAt = [c \in StartCalls |-> "idle"] /\ intervals = {} /\ fetchInterval = 0

\* what stop() leaves of the timers: clearInterval(this.fetchInterval) when it
\* is set, and nothing when stop() returned early or it is null
cleared(wasRunning) == IF wasRunning THEN intervals \ {fetchInterval} ELSE intervals

\* start() up to its first await: return when isRunning, else await
\* initializeStationInDatabase
StartCall(c) ==
  /\ startAt[c] = "idle"
  /\ startAt' = [startAt EXCEPT ![c] = IF apiRunning THEN "done" ELSE "init"]
  /\ UNCHANGED <<offPollCall, pollVars, intervals, fetchInterval>>

\* initializeStationInDatabase is over: isRunning = true, errorCount = 0 and
\* the initial fetchAndProcess is awaited
StartInitDone(c) ==
  /\ startAt[c] = "init"
  /\ apiRunning' = TRUE
  /\ errorCount' = 0
  /\ startAt' = [startAt EXCEPT ![c] = "fetch"]
  /\ UNCHANGED <<offPollCall, fetchTimer, nFetch, consec, selfStopped, intervals, fetchInterval>>

\* the initial fetchAndProcess is over: start() sets the interval timer
StartFetchDone(c, out) ==
  /\ startAt[c] = "fetch" /\ nFetch < MaxFetches
  /\ fetchAndProcess(out)
  /\ intervals' = cleared(apiRunning /\ ~apiRunning') \cup {c}
  /\ fetchInterval' = c
  /\ startAt' = [startAt EXCEPT ![c] = "done"]
  /\ UNCHANGED <<offPollCall, fetchTimer>>

\* an interval timer fires: fetchAndProcess when isRunning
IntervalFire(n, out) ==
  /\ n \in intervals /\ apiRunning /\ nFetch < MaxFetches
  /\ fetchAndProcess(out)
  /\ intervals' = cleared(~apiRunning')
  /\ fetchInterval' = IF apiRunning' THEN fetchInterval ELSE 0
  /\ UNCHANGED <<offPollCall, fetchTimer, startAt>>

\* stop(), called from outside
ApiStop ==
  /\ apiRunning
  /\ apiRunning' = FALSE
  /\ intervals' = cleared(TRUE)
  /\ fetchInterval' = 0
  /\ UNCHANGED <<offPollCall, errorCount, fetchTimer, nFetch, consec, selfStopped, startAt>>

CallNext ==
  \/ \E c \in StartCalls : StartCall(c)
  \/ \E c \in StartCalls : StartInitDone(c)
  \/ \E c \in StartCalls, out \in FetchOutcomes : StartFetchDone(c, out)
  \/ \E n \in StartCalls, out \in FetchOutcomes : IntervalFire(n, out)
  \/ ApiStop

\* ================================================= the database connection
\* connect(), handleConnectionError(), healthCheck() and ensureConnection() of
\* the DatabaseService, one call at a time.
\*   via      "connect" | "ensure": the method that was called
\*   pc       "idle" | "connecting" (await prisma.$connect) | "health" (connect's
\*            await healthCheck) | "sleep" (handleConnectionError's backoff)
\*            | "ensureHealth" (ensureConnection's await healthCheck)
\*            | "done" (returned) | "threw"
\*   attempts prisma.$connect calls of this call
\*   health   what the healthCheck of connect returned: "none" | "ok" | "failed"
\*   ensured  what the healthCheck of ensureConnection returned
\*   n        calls begun
NoConn == [via |-> "connect", pc |-> "idle", attempts |-> 0, health |-> "none",
           ensured |-> "none", n |-> 0]

ConnInit == dbConnected = FALSE /\ connectionRetries = 0 /\ conn = NoConn

CanCall == conn.pc \in {"idle", "done", "threw"} /\ conn.n < MaxConnCalls

\* the test of handleConnectionError, on the incremented counter
handleConnectionError_always(retries) == TRUE
handleConnectionError(retries) == retries <= DbMaxRetries

\* connect() up to its first await: return when isConnected, else
\* new PrismaClient and await prisma.$connect()
dbConnect(c) ==
  IF dbConnected
    THEN [c EXCEPT !.pc = "done"]
    ELSE [c EXCEPT !.pc = "connecting", !.attempts = @ + 1]

ConnectCall ==
  /\ CanCall
  /\ conn' = dbConnect([NoConn EXCEPT !.n = conn.n + 1])
  /\ UNCHANGED <<offConn, dbConnected, connectionRetries>>

\* prisma.$connect() settles: on to the health check, or into the catch and
\* handleConnectionError, which counts, and sleeps or throws
PrismaConnect(ok) ==
  /\ conn.pc = "connecting"
  /\ IF ok
       THEN /\ conn' = [conn EXCEPT !.pc = "health"]
            /\ UNCHANGED connectionRetries
       ELSE /\ connectionRetries' = connectionRetries + 1
            /\ conn' = [conn EXCEPT !.pc = IF handleConnectionError(connectionRetries')
                                             THEN "sleep" ELSE "threw"]
  /\ UNCHANGED <<offConn, dbConnected>>

\* `await this.healthCheck()` of connect(): healthCheck catches what its query
\* throws and returns false, and connect() does not look at what it returns
ConnectHealth(ok) ==
  /\ conn.pc = "health"
  /\ dbConnected' = TRUE
  /\ connectionRetries' = 0
  /\ conn' = [conn EXCEPT !.pc = "done", !.health = IF ok THEN "ok" ELSE "failed"]
  /\ UNCHANGED offConn

\* the backoff is over: `return this.connect()`
RetryWake ==
  /\ conn.pc = "sleep"
  /\ conn' = dbConnect(conn)
  /\ UNCHANGED <<offConn, dbConnected, connectionRetries>>

\* ensureConnection(): connect() when isConnected is false, else the health
\* check first
EnsureCall ==
  /\ CanCall
  /\ LET c == [NoConn EXCEPT !.via = "ensure", !.n = conn.n + 1]
     IN conn' = IF dbConnected THEN [c EXCEPT !.pc = "ensureHealth"] ELSE dbConnect(c)
  /\ UNCHANGED <<offConn, dbConnected, connectionRetries>>

\* the health check of ensureConnection returns: return when true, else
\* `await this.connect()`
EnsureHealth(ok) ==
  /\ conn.pc = "ensureHealth"
  /\ conn' = IF ok THEN [conn EXCEPT !.pc = "done", !.ensured = "ok"]
                   ELSE dbConnect([conn EXCEPT !.ensured = "failed"])
  /\ UNCHANGED <<offConn, dbConnected, connectionRetries>>

\* disconnect(), with prisma.$disconnect() resolving
DbDisconnect ==
  /\ conn.pc \in {"idle", "done", "threw"} /\ dbConnected
  /\ dbConnected' = FALSE
  /\ conn' = [NoConn EXCEPT !.n = conn.n]
  /\ UNCHANGED <<offConn, connectionRetries>>

ConnNext ==
  \/ ConnectCall
  \/ \E ok \in BOOLEAN : PrismaConnect(ok)
  \/ \E ok \in BOOLEAN : ConnectHealth(ok)
  \/ RetryWake
  \/ EnsureCall
  \/ \E ok \in BOOLEAN : EnsureHealth(ok)
  \/ DbDisconnect

\* ============================================ the monitored-object table
\* updateStationMonitoredObjects and getStationMonitoredObjects on the table
\* station_monitored_objects, with a reader that runs beside the writer.
MapStations == {"st1", "st2"}
ObjTypes == {"activePower1", "activePower2"}
\* the IDs a caller's map gives a field: an integer, a number with a fraction,
\* null and undefined
RawIds == {"8684", "12.7", "null", "undefined"}
InputMaps == [ObjTypes -> RawIds]

\* parseInt: the integer in front of the value's text
parseInt(raw) == IF raw = "12.7" THEN "12" ELSE raw

\* the fields of a map that updateStationMonitoredObjects keeps
Kept(map) == {t \in ObjTypes : map[t] \notin {"null", "undefined"}}

\* the rows updateStationMonitoredObjects builds from a map
objectsToCreate_unfiltered(st, map) ==
  {[stationId |-> st, objectType |-> t, objectId |-> parseInt(map[t])] : t \in ObjTypes}
objectsToCreate(st, map) ==
  {[stationId |-> st, objectType |-> t, objectId |-> parseInt(map[t])] : t \in Kept(map)}

RowsOf(rows, st) == {r \in rows : r.stationId = st}

\* getStationMonitoredObjects: objectMap, as its entries, and count
getStationMonitoredObjects(rows, st) ==
  [objectMap |-> {<<r.objectType, r.objectId>> : r \in RowsOf(rows, st)},
   count |-> Cardinality(RowsOf(rows, st))]

NoUpd == [pc |-> "idle", st |-> "st1", map |-> [t \in ObjTypes |-> "null"], old |-> {}]
NoGot == [st |-> "st1", objectMap |-> {}, count |-> 0, during |-> FALSE, after |-> FALSE]

MapInit == objRows = {} /\ upd = NoUpd /\ got = NoGot

\* updateStationMonitoredObjects(st, map) is called
UpdateCall(st, map) ==
  /\ upd.pc \in {"idle", "done", "threw"}
  /\ upd' = [pc |-> "delete", st |-> st, map |-> map, old |-> objRows]
  /\ got' = NoGot
  /\ UNCHANGED <<offMap, objRows>>

\* await prisma.stationMonitoredObject.deleteMany({ where: { stationId } })
DeleteMany(ok) ==
  /\ upd.pc = "delete"
  /\ IF ok
       THEN /\ objRows' = objRows \ RowsOf(objRows, upd.st)
            /\ upd' = [upd EXCEPT !.pc = "create"]
       ELSE /\ upd' = [upd EXCEPT !.pc = "threw"]
            /\ UNCHANGED objRows
  /\ UNCHANGED <<offMap, got>>

\* createMany when there is a row to create, and the return
CreateMany(ok) ==
  /\ upd.pc = "create"
  /\ LET data == objectsToCreate(upd.st, upd.map)
     IN IF data = {} \/ ok
          THEN /\ objRows' = objRows \cup data
               /\ upd' = [upd EXCEPT !.pc = "done"]
          ELSE /\ upd' = [upd EXCEPT !.pc = "threw"]
               /\ UNCHANGED objRows
  /\ UNCHANGED <<offMap, got>>

\* getStationMonitoredObjects(st), by a session that loads its object list
GetObjects(st) ==
  /\ LET res == getStationMonitoredObjects(objRows, st)
     IN got' = [st |-> st, objectMap |-> res.objectMap, count |-> res.count,
                during |-> (upd.pc = "create" /\ upd.st = st),
                after |-> (upd.pc = "done" /\ upd.st = st)]
  /\ got' # got
  /\ UNCHANGED <<offMap, objRows, upd>>

MapNext ==
  \/ \E st \in MapStations, map \in InputMaps : UpdateCall(st, map)
  \/ \E ok \in BOOLEAN : DeleteMany(ok)
  \/ \E ok \in BOOLEAN : CreateMany(ok)
  \/ \E st \in MapStations : GetObjects(st)

\* ============================================== writes of power readings
\* createPowerReading and createBatchPowerReadings, by what they check before
\* they reach the store.
\* readingData.stationId and readingData.timestamp as a caller may give them
StationIdsIn == {"st1", "undefined"}
TimestampsIn == {"2024-01-01T00:00:00Z", "undefined", "not a date"}
ReadingsIn == [stationId : StationIdsIn, timestamp : TimestampsIn]
\* the argument of createBatchPowerReadings: an array of readings, or no array
BatchesIn ==
  {[isArray |-> TRUE, items |-> a] : a \in UNION {[1..n -> ReadingsIn] : n \in 0..MaxBatch}}
    \cup {[isArray |-> FALSE, items |-> <<>>]}

\* `!stationId || !timestamp`
MissingFields(r) == r.stationId = "undefined" \/ r.timestamp = "undefined"
\* isNaN(new Date(timestamp).getTime())
InvalidTimestamp(r) == r.timestamp = "not a date"
\* the checks that throw before the store is reached
Rejected_missingOnly(r) == MissingFields(r)
Rejected(r) == MissingFields(r) \/ InvalidTimestamp(r)

NoReq == [op |-> "none", arg |-> <<>>, bad |-> FALSE, size |-> 0, result |-> "none",
          before |-> 0]

ReqInit == pwRows = 0 /\ req = NoReq

\* createPowerReading(r): the checks, then prisma.powerReading.create
CreatePowerReading(r, ok) ==
  /\ pwRows < MaxRows
  /\ LET writes == ~Rejected(r) /\ ok
     IN /\ pwRows' = IF writes THEN pwRows + 1 ELSE pwRows
        /\ req' = [op |-> "single", arg |-> <<r>>,
                   bad |-> MissingFields(r) \/ InvalidTimestamp(r),
                   size |-> 1, result |-> IF writes THEN "returned" ELSE "threw",
                   before |-> pwRows]
  /\ UNCHANGED offReq

\* createBatchPowerReadings(b): 0 for no array and for an empty one; the map
\* over the readings throws at the first that fails a check; then createMany
\* with skipDuplicates inserts n of them
CreateBatchPowerReadings(b, ok, n) ==
  /\ pwRows + MaxBatch <= MaxRows + 1
  /\ LET empty == ~b.isArray \/ Len(b.items) = 0
         bad == \E i \in 1..Len(b.items) :
                  MissingFields(b.items[i]) \/ InvalidTimestamp(b.items[i])
         rejected == \E i \in 1..Len(b.items) : Rejected(b.items[i])
         writes == ~empty /\ ~rejected /\ ok
     IN /\ n \in 0..(IF writes THEN Len(b.items) ELSE 0)
        /\ pwRows' = pwRows + n
        /\ req' = [op |-> "batch", arg |-> b.items, bad |-> bad, size |-> Len(b.items),
                   result |-> IF empty THEN "zero"
                              ELSE IF writes THEN "returned" ELSE "threw",
                   before |-> pwRows]
  /\ UNCHANGED offReq

ReqNext ==
  \/ \E r \in ReadingsIn, ok \in BOOLEAN : CreatePowerReading(r, ok)
  \/ \E b \in BatchesIn, ok \in BOOLEAN, n \in 0..MaxBatch : CreateBatchPowerReadings(b, ok, n)

\* ===================================================== the Chiang Mai child
\* the controller's state that the child's lifecycle leaves alone
fleetButChild == <<mode, behav, pc, currentIndex, turn, sess, attempts, task, seen,
                   allData, summary, cls, hadTurn>>

ExitCodes == {"zero", "nonzero"}

ChildInit ==
  /\ hasDatabase \in BOOLEAN
  /\ child = "none"
  /\ starting = 0
  /\ restartTimers = 0
  /\ nStarts = 0
  /\ stopCalled = FALSE
  /\ exited = FALSE
  /\ startedAfterStop = FALSE

\* the "close" listener's test before it schedules a restart
RestartWanted(running, code) == running /\ code # "zero"

\* startChiangMaiStation after its await: spawn("node", ["chaigmai.js"])
spawn ==
  /\ chiangMaiProcess' = TRUE
  /\ child' = "up"
  /\ startedAfterStop' = (startedAfterStop \/ stopCalled)

\* startChiangMaiStation is called: with a databaseService it awaits
\* findOrCreateStation first, without one it spawns at once
startChiangMaiStation ==
  /\ nStarts' = nStarts + 1
  /\ IF hasDatabase
       THEN /\ starting' = starting + 1
            /\ UNCHANGED <<chiangMaiProcess, child, startedAfterStop>>
       ELSE /\ spawn
            /\ UNCHANGED starting

\* startSimultaneous: isRunning = true; await startChiangMaiStation()
ChildStart ==
  /\ ~exited /\ nStarts = 0
  /\ isRunning' = TRUE
  /\ startChiangMaiStation
  /\ UNCHANGED <<offFleetChild, fleetButChild, handler>>
  /\ UNCHANGED <<hasDatabase, restartTimers, stopCalled, exited>>

\* findOrCreateStation answers: spawn, or the catch logs when it threw
Spawned(found) ==
  /\ ~exited /\ starting > 0
  /\ starting' = starting - 1
  /\ IF found = "ok"
       THEN spawn
       ELSE UNCHANGED <<chiangMaiProcess, child, startedAfterStop>>
  /\ UNCHANGED <<offFleetChild, fleetButChild, isRunning, handler>>
  /\ UNCHANGED <<hasDatabase, restartTimers, nStarts, stopCalled, exited>>

\* startSimultaneous returns and main installs the SIGINT listener
HandlerInstalled ==
  /\ ~exited /\ ~handler /\ nStarts > 0 /\ starting = 0
  /\ handler' = TRUE
  /\ UNCHANGED <<offFleetChild, fleetButChild, isRunning, chiangMaiProcess>>
  /\ UNCHANGED childVars

\* the child exits; the "close" listener schedules a restart in 5 s
ChildClose(code) ==
  /\ child \in {"up", "term"}
  /\ child' = "gone"
  /\ IF ~exited /\ RestartWanted(isRunning, code)
       THEN restartTimers' = restartTimers + 1
       ELSE UNCHANGED restartTimers
  /\ UNCHANGED <<offFleetChild, fleetButChild, isRunning, handler, chiangMaiProcess>>
  /\ UNCHANGED <<hasDatabase, starting, nStarts, stopCalled, exited, startedAfterStop>>

\* the restart timer fires: startChiangMaiStation()
RestartTimer ==
  /\ ~exited /\ restartTimers > 0 /\ nStarts < MaxStarts
  /\ restartTimers' = restartTimers - 1
  /\ startChiangMaiStation
  /\ UNCHANGED <<offFleetChild, fleetButChild, isRunning, handler>>
  /\ UNCHANGED <<hasDatabase, stopCalled, exited>>

\* SIGINT: main's listener awaits stop(): isRunning = false, SIGTERM to the
\* child, chiangMaiProcess = null, then await databaseService.disconnect()
\* when there is one; with none the listener runs on to process.exit(0)
ChildStop ==
  /\ ~exited /\ handler /\ ~stopCalled
  /\ isRunning' = FALSE
  /\ stopCalled' = TRUE
  /\ IF chiangMaiProcess
       THEN /\ chiangMaiProcess' = FALSE
            /\ child' = IF child = "up" THEN "term" ELSE child
       ELSE UNCHANGED <<chiangMaiProcess, child>>
  /\ exited' = ~hasDatabase
  /\ UNCHANGED <<offFleetChild, fleetButChild, handler>>
  /\ UNCHANGED <<hasDatabase, starting, restartTimers, nStarts, startedAfterStop>>

\* databaseService.disconnect() answers: getSummary, process.exit(0)
ControllerExit ==
  /\ ~exited /\ stopCalled
  /\ exited' = TRUE
  /\ UNCHANGED <<offFleetChild, fleetVars>>
  /\ UNCHANGED <<hasDatabase, child, starting, restartTimers, nStarts, stopCalled,
                 startedAfterStop>>

ChildNext ==
  \/ ChildStart
  \/ \E found \in Outcomes : Spawned(found)
  \/ HandlerInstalled
  \/ \E code \in ExitCodes : ChildClose(code)
  \/ RestartTimer
  \/ ChildStop
  \/ ControllerExit

\* ============================================================ specifications
Messages == [id : Steps, shape : Shapes]

Next ==
  \/ CtlConnect
  \/ TimerFire
  \/ \E k \in Socks : SockOpen(k)
  \/ \E k \in Socks : SockClose(k)
  \/ \E j \in Socks : SendData(j)
  \/ \E j \in Socks : Timeout(j)
  \/ \E k \in Socks, msg \in Messages : Deliver(k, msg)
  \/ Disconnect
  \/ ProcessSignal

\* ===================================================== overlapping sockets
\* The supervisor with one socket more than the coordinator's own: the same
\* steps, with the socket that issued this.USID recorded.
OverlapRest == cap = MaxSock /\ usidFrom = 0 /\ regOk = {} /\ processedOn = {}

\* what the station can push besides responses
Pushes == {"sync", "otherProvider", "noSync", "noNotification"}

\* the test of startMonitoring's listener: a ScriptEngine notification with sync
startMonitoring(m) == m = "sync"

SockCloseT(k) ==
  /\ onSocketClose(k)
  /\ usidFrom' = IF usidFrom = k THEN -1 ELSE usidFrom
  /\ regOk' = regOk \ {k}
  /\ processedOn' = processedOn \ {k}
  /\ UNCHANGED <<offStationOverlap, cap>>

DeliverT(k, msg) ==
  /\ onMessage(k, msg)
  /\ usidFrom' = IF \E j \in Socks : Hears(j, k, msg) /\ co[j].step = 0 THEN k ELSE usidFrom
  /\ regOk' = IF \E j \in Socks : /\ Hears(j, k, msg) /\ co[j].step = LastStep
                                     /\ StepValidator(kind, LastStep, msg)
                 THEN regOk \cup {k} ELSE regOk
  /\ UNCHANGED <<offStationOverlap, cap, processedOn>>

DisconnectT ==
  /\ disconnect
  /\ usidFrom' = IF ws # 0 THEN 0 ELSE usidFrom
  /\ UNCHANGED <<offStationOverlap, cap, regOk, processedOn>>

\* the station pushes m on socket k: the listener of startMonitoring, where
\* one is installed, hands a ScriptEngine sync notification to updateData
Push(k, m) ==
  /\ alive /\ socks[k] = "open"
  /\ processedOn' = IF k \in mon /\ startMonitoring(m) THEN processedOn \cup {k}
                       ELSE processedOn
  /\ UNCHANGED <<stationVars, offStationOverlap, cap, usidFrom, regOk>>

NextOverlap ==
  \/ CtlConnect
  \/ TimerFire
  \/ \E k \in Socks : SockOpen(k)
  \/ \E k \in Socks : SockCloseT(k)
  \/ \E j \in Socks : SendData(j)
  \/ \E j \in Socks : Timeout(j)
  \/ \E k \in Socks, msg \in Messages : DeliverT(k, msg)
  \/ DisconnectT
  \/ \E k \in Socks, m \in Pushes : Push(k, m)

\* one station's supervisor; the pipeline is at rest
\* the coordinator before main has started anything
FleetRest ==
  /\ FleetInit /\ mode = "rotation"
  /\ behav = [s \in Stations |-> "good"]
  /\ cls = [s \in Stations |-> "StationMonitor"]

\* the monitored-object list before any session
LoadRest == LoadInit /\ databaseService /\ storeRows = {}

\* the controller before startSimultaneous
ChildRest == ChildInit /\ hasDatabase

\* normalization before any frame
NormRest == NormInit /\ path = "socket"

Init == StationInit /\ PipeInit /\ pkind = "monitor" /\ dbOn /\ FleetRest /\ LoadRest /\ NormRest /\ StoreInit /\ PollInit /\ ChildRest /\ OverlapRest /\ CallInit /\ ConnInit /\ MapInit /\ ReqInit

Spec == Init /\ [][Next]_vars

\* the supervisor with its timers firing: sendData's delay, waitForMessage's
\* timeout and handleReconnect's timer end; what the station sends, and when a
\* socket closes, is left open
SpecFair ==
  /\ Spec
  /\ WF_vars(TimerFire)
  /\ \A j \in Socks : WF_vars(SendData(j)) /\ WF_vars(Timeout(j))

\* one station's pipeline; the supervisor is at rest
InitPipe == StationInit /\ kind = "monitor" /\ PipeInit /\ FleetRest /\ LoadRest /\ NormRest /\ StoreInit /\ PollInit /\ ChildRest /\ OverlapRest /\ CallInit /\ ConnInit /\ MapInit /\ ReqInit

SpecPipe == InitPipe /\ [][PipeNext]_vars

\* the coordinator and its stations; supervisor and pipeline are at rest
InitFleet ==
  /\ StationInit /\ kind = "monitor"
  /\ PipeInit /\ pkind = "monitor" /\ dbOn
  /\ FleetInit
  /\ LoadRest
  /\ NormRest
  /\ StoreInit
  /\ PollInit
  /\ ChildRest
  /\ OverlapRest
  /\ CallInit
  /\ ConnInit
  /\ MapInit
  /\ ReqInit

SpecFleet == InitFleet /\ [][FleetNext]_vars

\* one station's monitored-object list against its store; the rest is at rest
InitLoad ==
  /\ StationInit /\ kind = "monitor"
  /\ PipeInit /\ pkind = "monitor" /\ dbOn
  /\ FleetRest
  /\ LoadInit
  /\ NormRest
  /\ StoreInit
  /\ PollInit
  /\ ChildRest
  /\ OverlapRest
  /\ CallInit
  /\ ConnInit
  /\ MapInit
  /\ ReqInit

SpecLoad == InitLoad /\ [][LoadNext]_vars

\* frames through validation and normalization; the rest is at rest
InitNorm ==
  /\ StationInit /\ kind = "monitor"
  /\ PipeInit /\ pkind = "monitor" /\ dbOn
  /\ FleetRest
  /\ LoadRest
  /\ NormInit
  /\ StoreInit
  /\ PollInit
  /\ ChildRest
  /\ OverlapRest
  /\ CallInit
  /\ ConnInit
  /\ MapInit
  /\ ReqInit

SpecNorm == InitNorm /\ [][NormNext]_vars

\* the DatabaseService and its callers; the rest is at rest
InitStore ==
  /\ StationInit /\ kind = "monitor"
  /\ PipeInit /\ pkind = "monitor" /\ dbOn
  /\ FleetRest
  /\ LoadRest
  /\ NormRest
  /\ StoreInit
  /\ PollInit
  /\ ChildRest
  /\ OverlapRest
  /\ CallInit
  /\ ConnInit
  /\ MapInit
  /\ ReqInit

SpecStore == InitStore /\ [][StoreNext]_vars

\* one HTTP poller against its device; the rest is at rest
InitPoll ==
  /\ StationInit /\ kind = "monitor"
  /\ PipeInit /\ pkind = "monitor" /\ dbOn
  /\ FleetRest
  /\ LoadRest
  /\ NormRest
  /\ StoreInit
  /\ PollInit
  /\ ChildRest
  /\ OverlapRest
  /\ CallInit
  /\ ConnInit
  /\ MapInit
  /\ ReqInit

SpecPoll == InitPoll /\ [][PollNext]_vars

InitCall ==
  /\ StationInit /\ kind = "monitor"
  /\ PipeInit /\ pkind = "monitor" /\ dbOn
  /\ FleetRest
  /\ LoadRest
  /\ NormRest
  /\ StoreInit
  /\ PollInit
  /\ ChildRest
  /\ OverlapRest
  /\ CallInit
  /\ ConnInit
  /\ MapInit
  /\ ReqInit

SpecCall == InitCall /\ [][CallNext]_vars

\* the monitored-object table alone
InitMap ==
  /\ StationInit /\ kind = "monitor"
  /\ PipeInit /\ pkind = "monitor" /\ dbOn
  /\ FleetRest
  /\ LoadRest
  /\ NormRest
  /\ StoreInit
  /\ PollInit
  /\ ChildRest
  /\ OverlapRest
  /\ CallInit
  /\ ConnInit
  /\ MapInit
  /\ ReqInit

SpecMap == InitMap /\ [][MapNext]_vars

\* the writes of power readings alone
InitReq ==
  /\ StationInit /\ kind = "monitor"
  /\ PipeInit /\ pkind = "monitor" /\ dbOn
  /\ FleetRest
  /\ LoadRest
  /\ NormRest
  /\ StoreInit
  /\ PollInit
  /\ ChildRest
  /\ OverlapRest
  /\ CallInit
  /\ ConnInit
  /\ MapInit
  /\ ReqInit

SpecReq == InitReq /\ [][ReqNext]_vars

\* the database connection alone
InitConn ==
  /\ StationInit /\ kind = "monitor"
  /\ PipeInit /\ pkind = "monitor" /\ dbOn
  /\ FleetRest
  /\ LoadRest
  /\ NormRest
  /\ StoreInit
  /\ PollInit
  /\ ChildRest
  /\ OverlapRest
  /\ CallInit
  /\ ConnInit
  /\ MapInit
  /\ ReqInit

SpecConn == InitConn /\ [][ConnNext]_vars

\* every await of a running call settles
SpecConnFair ==
  /\ SpecConn
  /\ WF_vars(\E ok \in BOOLEAN : PrismaConnect(ok))
  /\ WF_vars(\E ok \in BOOLEAN : ConnectHealth(ok))
  /\ WF_vars(RetryWake)
  /\ WF_vars(\E ok \in BOOLEAN : EnsureHealth(ok))

\* the controller and its chaigmai.js child; the rest is at rest
InitChild ==
  /\ StationInit /\ kind = "monitor"
  /\ PipeInit /\ pkind = "monitor" /\ dbOn
  /\ FleetInit /\ mode = "simultaneous"
  /\ behav = [s \in Stations |-> "good"]
  /\ cls = [s \in Stations |-> "StationMonitor"]
  /\ LoadRest
  /\ NormRest
  /\ StoreInit
  /\ PollInit
  /\ ChildInit
  /\ OverlapRest
  /\ CallInit
  /\ ConnInit
  /\ MapInit
  /\ ReqInit

SpecChild == InitChild /\ [][ChildNext]_vars

\* a StationMonitor whose reconnect chain and coordinator can each hold a socket
InitOverlap ==
  /\ StationInit /\ kind = "monitor"
  /\ PipeInit /\ pkind = "monitor" /\ dbOn
  /\ FleetRest
  /\ LoadRest
  /\ NormRest
  /\ StoreInit
  /\ PollInit
  /\ ChildRest
  /\ cap = MaxSock + 1 /\ usidFrom = 0 /\ regOk = {} /\ processedOn = {}
  /\ CallInit
  /\ ConnInit
  /\ MapInit
  /\ ReqInit

SpecOverlap == InitOverlap /\ [][NextOverlap]_vars

\* ===================================================== claims, supervisor
Max == config_maxReconnectAttempts(kind)

\* C1 (as stated): once maxReconnectAttempts consecutive connect attempts have
\* ended in a close with no open in between, handleReconnect schedules no
\* further connect().
C1_BudgetAsStated == connFails >= Max => ~lastSched

\* C1 (amended): the n-th consecutive close event with no open in between makes
\* handleReconnect schedule a connect() exactly when n <= maxReconnectAttempts,
\* so the budget ends at close number maxReconnectAttempts + 1 (a failed first
\* connect or a dropped session, then maxReconnectAttempts failed reconnects);
\* the counter equals the number of those closes, capped at the maximum.
C1_Budget ==
  /\ fails >= 1 => (lastSched <=> fails <= Max)
  /\ reconnectAttempts = MinCap(fails, Max)

C1_Witness ==
  /\ fails = Max + 1 /\ ~lastSched /\ timers = 0
  /\ \A k \in Socks : socks[k] = "none" /\ co[k].st = "none"

\* C2: once disconnect() has been called, the supervisor's own reconnection
\* logic makes no connect() for the station.
C2_StopIsTerminal == [][stopped => ~TimerFire]_vars

\* C3: a handshake run sends request k+1 only after it observed a response
\* that satisfies request k's validator (so id 7 only after the sign-in
\* response), and the notification listener is installed only by a run that
\* observed all eight, whatever the station sends and in whatever order.
C3_HandshakeOrder ==
  /\ ~monBad
  /\ \A j \in Socks : Sent(co[j]) >= 1 => co[j].seen >= Sent(co[j]) - 1

C3_Witness == early7 /\ mon # {} /\ ws \in mon

\* C4: a handshake wait that times out while the transport it uses is open
\* puts the station on the reconnection path: the attempt counter goes up by
\* one and a connect is scheduled.
C4_HandshakeFailureReconnects ==
  [][\A j \in Socks :
       (Timeout(j) /\ socks[co[j].on] = "open")
         => (reconnectAttempts' = reconnectAttempts + 1 /\ timers' = timers + 1)]_vars

\* ------------------------------------------------------------------ pipeline
\* the last frame fell inside the window of an acknowledged write
InWindow(f) == f.saveBefore # NoTime /\ f.t - f.saveBefore < DbSaveInterval

\* C5: for a socket station any two writes issued by saveToDatabase are at least
\* dbSaveInterval apart, also when a changed reading arrives while the earlier
\* write is still in flight.
C5_WriteThrottle ==
  (pkind # "api" /\ prevIssueT # NoTime) => lastW.t - prevIssueT >= DbSaveInterval

StationStep(s) ==
  \/ FleetOpen(s) \/ FleetConnFail(s) \/ FleetRetry(s)
  \/ FleetSignInFails(s) \/ FleetDrop(s)

\* C9: in simultaneous mode no step of a station that refuses the sign-in or
\* cannot be reached (its budget running out included) changes a sibling's
\* session, counter, task or readings, or moves or stops the coordinator.
C9_FaultIsolation ==
  [][\A s \in Stations :
       (mode = "simultaneous" /\ behav[s] # "good" /\ StationStep(s))
         => /\ \A t \in Stations \ {s} :
                 /\ sess'[t] = sess[t] /\ attempts'[t] = attempts[t]
                 /\ task'[t] = task[t] /\ seen'[t] = seen[t]
            /\ pc' = pc /\ isRunning' = isRunning]_vars

\* one station's budget is exhausted, one is stuck after a refused sign-in, the
\* third is streaming and has readings, and the coordinator is up
C9_Witness ==
  /\ mode = "simultaneous" /\ pc = "idle" /\ isRunning
  /\ \E s, t, u \in Stations :
       /\ sess[s] = "exhausted" /\ attempts[s] = MonitorMaxReconnectAttempts
       /\ sess[t] = "stuck" /\ behav[t] = "signInFails"
       /\ sess[u] = "streaming" /\ seen[u]

\* C10: once a station has a reading, the end of the process is a shutdown
\* that printed a summary with every station that has had a reading.
C10_FinalSummary ==
  (pc \in {"exit0", "killed"} /\ \E s \in Stations : seen[s])
    => (summary.printed /\ \A s \in Stations : seen[s] => s \in summary.stations)

\* stations whose monitor holds an open socket: handshaking, streaming, or left
\* open after a failed handshake
OpenSessions == {s \in Stations : sess[s] \in {"open", "streaming", "stuck"}}

\* C11: in rotation mode at most one station at a time has an open transport
\* or an active handshake or streaming session.
C11_OneStationAtATime ==
  mode = "rotation" => Cardinality(OpenSessions) <= 1

\* C12: in rotation mode every station whose turn has begun, socket or
\* HTTP-polled, has been given its monitoring window: its monitor was started.
C12_EveryStationServed ==
  (mode = "rotation" /\ pc \in {"rot", "spin"})
    => \A s \in hadTurn : sess[s] # "none"

\* ------------------------------------------------------ monitored-object list
\* C13: whatever the store does, initializeStationInDatabase ends without
\* throwing and leaves monitoredObjects equal to the station's stored non-empty
\* id list or to the default list, never empty.
C13_LoadNeverFails ==
  lastLoad.called =>
    /\ ~lastLoad.threw
    /\ objs # {}
    /\ \/ objs = DefaultObjects
       \/ /\ lastLoad.db /\ lastLoad.find = "ok" /\ lastLoad.lookup = "ok"
          /\ lastLoad.rows # {} /\ objs = lastLoad.rows

\* the lookup answered with no row and the default list was taken
C13_Witness ==
  /\ lastLoad.called /\ lastLoad.db /\ lastLoad.find = "ok"
  /\ lastLoad.lookup = "ok" /\ lastLoad.rows = {}
  /\ objs = DefaultObjects

\* C14: from the start of a session to its end monitoredObjects is what the
\* session's start left.
C14_MapImmutableInSession ==
  phase = "session" => objs = sessionObjs

\* ------------------------------------------------------------- normalization
\* the ids a stored map lists
MapIds(m) == {m[f] : f \in DOMAIN m}
\* a value that is a number
IsNumber(v) == v \in {"5", "2000000000"}
\* k is the only key of the frame that the tables resolve to its field
SoleForField(obj, k) ==
  \A k2 \in OwnKeys(obj) \ {k} : FieldOf(k2) # FieldOf(k)

\* C15: for every raw id of the station's stored map, the reading written for
\* a frame of that station holds the id's value under the field the map gives
\* the id.
C15_StationMapWins ==
  (path = "socket" /\ written) =>
    \A m \in ObjectMaps :
      OwnKeys(powerData) \subseteq MapIds(m) =>
        \A f \in DOMAIN m :
          hasOwnProperty(powerData, m[f]) => dbData[f] = NullIfNaN(powerData[m[f]])

\* C16: a key that no table of the transform has gets no field in the reading,
\* and the reading is that of the frame without the key.
C16_UnmappedDropped ==
  /\ (path = "socket" /\ written) =>
       /\ OwnKeys(dbData) \subseteq Fields
       /\ \A k \in OwnKeys(powerData) :
            FieldOf(k) = "unmapped" =>
              /\ dbData[k] = "absent"
              /\ dbData = transformPowerData([powerData EXCEPT ![k] = "absent"])
  /\ (path = "api" /\ written) =>
       /\ OwnKeys(lastData) \subseteq Fields
       /\ \A k \in OwnKeys(powerData) \ TableIds(apiMap) :
            /\ k \notin Fields => lastData[k] = "absent"
            /\ lastData = transformApiDataKeys([powerData EXCEPT ![k] = "absent"])
            /\ dbData = lastData

\* a frame with an id of no table and an id of the tables: the second is stored
C16_Witness ==
  /\ path = "socket" /\ written
  /\ hasOwnProperty(powerData, UnknownId)
  /\ powerData["8684"] = "5" /\ dbData["activePower1"] = "5"
  /\ OwnKeys(dbData) = {"activePower1"}

\* the standard and alternative ids as the claim lists them
ClaimedAliases ==
  [id : {"224272", "75432", "75441", "75483", "75428"}, field : {"muxPower5"}]
    \cup [id : {"18053", "75484", "75519", "75429"}, field : {"muxPower6"}]
    \cup { [id |-> "18069", field |-> "muxPower1"], [id |-> "18070", field |-> "muxPower2"],
           [id |-> "73909", field |-> "muxPower3"], [id |-> "73910", field |-> "muxPower4"],
           [id |-> "8684", field |-> "activePower1"] }

C18_NumericWins ==
  (path = "socket" /\ written) =>
    \A k1, k2 \in OwnKeys(powerData) :
      ( /\ k1 # k2 /\ FieldOf(k1) # "unmapped" /\ FieldOf(k1) = FieldOf(k2)
        /\ parseFloat(powerData[k1]) = "NaN" /\ IsNumber(powerData[k2])
        /\ \A k3 \in OwnKeys(powerData) \ {k1, k2} : FieldOf(k3) # FieldOf(k1) )
      => dbData[FieldOf(k1)] = powerData[k2]

\* C19 as stated: each normalizer returns an already normalized reading
\* unchanged.
C19_Idempotent ==
  written =>
    /\ transformPowerData(dbData) = dbData
    /\ path = "api" => transformApiDataKeys(lastData) = lastData

\* C19: the stored reading is the normalization of the frame it came from;
\* transformPowerData returns a normalized reading unchanged; transformApiData
\* keeps no field of a normalized reading.
C19_IdempotentStore ==
  written =>
    /\ path = "socket" => dbData = transformPowerData(powerData)
    /\ path = "api" =>
         /\ lastData = transformApiDataKeys(powerData)
         /\ dbData = lastData
         /\ transformApiDataKeys(lastData) = NoProps
    /\ transformPowerData(dbData) = dbData

\* a stored reading with a number and a null
C19_Witness ==
  /\ written
  /\ dbData["activePower1"] = "5"
  /\ \E f \in Fields : dbData[f] = "null"
  /\ transformPowerData(dbData) = dbData

C22_OneInsertAttempt ==
  \A c \in Callers : calls[c].op = "reading" => calls[c].n <= 1

\* C26: there is at most one station row per name; every row keeps the id and
\* the name it was created with; a findOrCreateStation call that returns gives
\* the row of its (trimmed) name, the row that was there when the call began if
\* there was one.
C26_StationKeyedByName ==
  /\ \A r1, r2 \in stRows : r1.name = r2.name => r1 = r2
  /\ {[id |-> r.id, name |-> r.name] : r \in stRows} = born
  /\ \A c \in Callers :
       (calls[c].op = "station" /\ calls[c].pc = "done") =>
         /\ calls[c].result = findUnique(stRows, trim(calls[c].name))
         /\ calls[c].result # 0
         /\ calls[c].had # 0 => calls[c].result = calls[c].had

\* two callers raced for one name: one created the row, the other's create was
\* rejected; a later call under the untrimmed name got the row and updated its
\* endpoint
C26_Witness ==
  /\ Cardinality(stRows) = 1
  /\ \E c, d \in Callers :
       /\ c # d
       /\ calls[c].pc = "threw" /\ calls[c].op = "station" /\ calls[c].had = 0
       /\ trim(calls[c].name) = "A"
       /\ calls[d].pc = "done" /\ calls[d].op = "station" /\ calls[d].had # 0
       /\ calls[d].name = " A"
       /\ \E r \in stRows : r.id = calls[d].result /\ r.ep = calls[d].ep /\ r.name = "A"

\* ------------------------------------------------------------------ poller
\* C23: the poller has stopped itself exactly when ApiMaxErrors fetches in a
\* row have been rejected, a fetch that resolves starting the row anew; until
\* then it is running.
C23_FailureBudget ==
  fetchTimer # "none" =>
    /\ selfStopped <=> consec >= ApiMaxErrors
    /\ apiRunning <=> ~selfStopped

\* ------------------------------------------------------------ cancellation
\* C24: disconnect() ends every pending wait: right after it no handshake run
\* of the station is waiting for a response or in the delay before a request.
C24_DisconnectEndsWaits ==
  [][Disconnect => \A j \in Socks : co'[j].st \notin {"wait", "send"}]_vars

\* ------------------------------------------------------------ child process
\* C25: once MonitorController.stop() has been called no chaigmai.js process
\* is started any more, a restart scheduled before stop() included.
C25_NoStartAfterStop == ~startedAfterStop

\* ------------------------------------------------------------- clean restart
\* C27: a token-carrying request (steps 1, 2 and 7) sent on a socket carries a
\* USID that was received on that socket; stated for the sockets of the
\* coordinator's connect() calls, where no timer decides the order of events.
C27_TokenOfThisTransport ==
  [][\A j \in Socks :
       (/\ SendData(j) /\ co[j].step \in {1, 2, 7} /\ co'[j].st = "wait"
        /\ USID # 0 /\ ws = ctlSock)
         => usidFrom = ws]_vars

\* ------------------------------------------------------------ registration
\* C28: registerActiveObjects is sent only after the session has loaded the
\* station's monitored objects, and its id list is the loaded list followed
\* by the sentinel -1.
C28_LoadedThenRegistered ==
  registered.sent =>
    /\ registered.load.called
    /\ LET l == registered.load
           loaded == initializeStationInDatabase(l.db, l.find, l.lookup, l.rows).objects
       IN /\ Len(registered.ids) = Cardinality(loaded) + 1
          /\ registered.ids[Len(registered.ids)] = Sentinel
          /\ {registered.ids[i] : i \in 1..(Len(registered.ids) - 1)} = loaded

C28_Witness ==
  /\ registered.sent
  /\ registered.load.rows = StoredIds
  /\ registered.ids = Append(AsList(StoredIds), Sentinel)
  /\ reloadTimers = 0

\* ---------------------------------------------------------- notification mode
\* C29: a frame goes into updateData only on a socket whose
\* registerActiveObjects request has been answered with true.
C29_OnlyAfterRegistered == processedOn \subseteq regOk

\* ------------------------------------------------------------ bounded waits
\* C30: every wait for a handshake step's response ends, by a response or by
\* its timeout; stated for the waits whose socket stays open in a running
\* process, where only the station's silence is left.
C30_WaitsEnd ==
  \A j \in Socks, k \in Socks :
    (alive /\ co[j].st = "wait" /\ co[j].on = k /\ socks[k] = "open")
      ~> (~alive \/ co[j].st # "wait" \/ socks[k] # "open")

\* --------------------------------------------------------- frame handling
\* C31: a socket station handles one frame to the end, its write included,
\* before the next: two writes of one station are never in flight at once.
C31_OneWriteInFlight == pkind # "api" => Cardinality(inflight) <= 1

\* ------------------------------------------------------ one live transport
\* C32: a station's supervisor owns at most one live socket (connecting or
\* open) at any time.
C32_OneLiveSocket ==
  Cardinality({k \in Socks : socks[k] \in {"connecting", "open"}}) <= 1

\* ------------------------------------------------------- reconnect counter
\* C33: 0 <= reconnectAttempts <= maxReconnectAttempts always; a close that
\* schedules a reconnect adds exactly one and one that schedules none leaves
\* the counter; every open sets it to 0 and nothing else lowers it.
C33_CounterBounded ==
  [][/\ reconnectAttempts \in 0..Max /\ reconnectAttempts' \in 0..Max
     /\ timers' = timers + 1 => reconnectAttempts' = reconnectAttempts + 1
     /\ (\E k \in Socks : socks[k] = "connecting" /\ socks'[k] = "open")
          => reconnectAttempts' = 0
     /\ reconnectAttempts' # reconnectAttempts =>
          \/ timers' = timers + 1
          \/ \E k \in Socks : socks[k] = "connecting" /\ socks'[k] = "open"]_vars

\* a reconnect's socket has opened: the counter it had raised is 0 again
C33_Witness ==
  /\ reconnectAttempts = 0 /\ lastSched /\ ctlSock = 0
  /\ \E k \in Socks : socks[k] = "open" /\ co[k].st = "send"

\* ------------------------------------------------------------- fetch timer
\* C34: an ApiDataFetcher has at most one interval timer set, and one is set
\* only while isRunning, however start() and stop() calls interleave.
C34_OneFetchTimer == Cardinality(intervals) <= 1 /\ (intervals # {} => apiRunning)

C36_ConnectedMeansHealthy ==
  /\ (conn.pc = "done" /\ conn.attempts > 0) => conn.health = "ok"
  /\ (conn.pc = "done" /\ conn.ensured = "failed") => conn.attempts > 0

EntriesOf(rows, st) == {<<r.objectType, r.objectId>> : r \in RowsOf(rows, st)}

\* C38: a getStationMonitoredObjects that runs while the station's map is
\* being replaced returns the complete old map or the complete new one.
C38_AtomicReplace ==
  got.during =>
    \/ got.objectMap = EntriesOf(upd.old, upd.st)
    \/ got.objectMap = EntriesOf(objectsToCreate(upd.st, upd.map), upd.st)

====
